---------------------------- MODULE Spec2Model ----------------------------
(***************************************************************************)
(* Model of the bilingual autocomplete index:                              *)
(*   BilingualTrie  (src/src/data-structures/trie.js)                      *)
(*   BilingualMap   (src/unnamed/part_000, lines 405-655)                  *)
(*                                                                         *)
(* A JavaScript string is a sequence of UTF-16 code units.  A code unit is *)
(* a one-character TLA+ string: "a" is a letter, "A" its upper-case form,  *)
(* " " is white space, "H" is a high surrogate and "L" a low surrogate     *)
(* ("H" followed by "L" is one astral code point, such as a rare kanji).   *)
(* Document positions are 0-based as in the source.                        *)
(***************************************************************************)
EXTENDS Naturals, Integers, Sequences, FiniteSets, TLC

(***************************************************************************)
(* Bounds of the model.                                                    *)
(***************************************************************************)
MaxDocs == 2
MaxSets == 2
MaxQueryLen == 2

(***************************************************************************)
(* JavaScript string primitives.                                           *)
(***************************************************************************)
Chars == {"a", "A", " ", "H", "L"}

\* String.prototype.toLowerCase, one code unit at a time.
LowerChar(c) == IF c = "A" THEN "a" ELSE IF c = "Q" THEN "q" ELSE c

toLowerCase(s) == [i \in DOMAIN s |-> LowerChar(s[i])]

IsWhiteSpace(c) == c = " "

RECURSIVE TrimStart(_)
TrimStart(s) ==
  IF s # <<>> /\ IsWhiteSpace(Head(s)) THEN TrimStart(Tail(s)) ELSE s

RECURSIVE TrimEnd(_)
TrimEnd(s) ==
  IF s # <<>> /\ IsWhiteSpace(s[Len(s)])
  THEN TrimEnd(SubSeq(s, 1, Len(s) - 1))
  ELSE s

\* String.prototype.trim
trim(s) == TrimEnd(TrimStart(s))

\* String.prototype.includes: code-unit substring test ("" is in every string).
includes(text, term) ==
  \E i \in 0..(Len(text) - Len(term)) : SubSeq(text, i + 1, i + Len(term)) = term

\* String.prototype.startsWith: code-unit prefix test.
startsWith(term, prefix) ==
  /\ Len(prefix) <= Len(term)
  /\ SubSeq(term, 1, Len(prefix)) = prefix

IsHighSurrogate(c) == c = "H"
IsLowSurrogate(c) == c = "L"

\* The string iterator (for ... of): the sequence of code points of s, a
\* surrogate pair being one element, a lone surrogate an element of its own.
RECURSIVE CodePoints(_)
CodePoints(s) ==
  IF s = <<>> THEN <<>>
  ELSE IF Len(s) >= 2 /\ IsHighSurrogate(s[1]) /\ IsLowSurrogate(s[2])
       THEN <<SubSeq(s, 1, 2)>> \o CodePoints(SubSeq(s, 3, Len(s)))
       ELSE <<SubSeq(s, 1, 1)>> \o CodePoints(Tail(s))

\* Faulty variant of IsBlankQuery: the guard without its trim() test.
IsEmptyQuery(query) == query = <<>>

\* The guard shared by every query method:
\*   !query || typeof query !== 'string' || !query.trim()
IsBlankQuery(query) == query = <<>> \/ trim(query) = <<>>

Range(seq) == {seq[i] : i \in DOMAIN seq}

\* Set.prototype.add on an insertion-ordered Set, kept as a sequence.
SetAdd(seq, x) == IF x \in Range(seq) THEN seq ELSE Append(seq, x)

RECURSIVE SetAddAll(_, _)
SetAddAll(seq, xs) ==
  IF xs = <<>> THEN seq ELSE SetAddAll(SetAdd(seq, Head(xs)), Tail(xs))

\* Array.prototype.sort((a, b) => a - b): insertion of each element before
\* the first greater one.
RECURSIVE SortInsert(_, _)
SortInsert(sorted, x) ==
  IF sorted = <<>> THEN <<x>>
  ELSE IF x - Head(sorted) < 0 THEN <<x>> \o sorted
       ELSE <<Head(sorted)>> \o SortInsert(Tail(sorted), x)

\* Faulty variant of SortAscending: the array is returned in insertion order.
Unsorted(arr) == arr

RECURSIVE SortAscending(_)
SortAscending(arr) ==
  IF arr = <<>> THEN <<>>
  ELSE SortInsert(SortAscending(SubSeq(arr, 1, Len(arr) - 1)), arr[Len(arr)])

\* What an array read past its end gives.
undefined == <<"undefined">>

\* Faulty variant of TextsAt: the lower-cased texts are returned.
TextsLowerCasedAt(data, indices) ==
  [k \in DOMAIN indices |-> toLowerCase(data[indices[k] + 1])]

\* .map(idx => this.data[idx])
TextsAt(data, indices) ==
  [k \in DOMAIN indices |->
     IF indices[k] + 1 \in DOMAIN data THEN data[indices[k] + 1]
     ELSE undefined]

\* An element of the data array that is not a string (a number, null, an
\* object): text.toLowerCase is not a function on it.
NotAString == <<"#">>

IsString(text) == text # NotAString

\* Faulty variant of ConstructorThrows: the constructor also raises when it
\* is given no data, instead of warning.
ThrowsAlsoOnNoData(data) ==
  data = <<>> \/ \E i \in DOMAIN data : data[i] = NotAString

\* data.forEach((text, index) => { const textLower = text.toLowerCase(); ...
\* throws a TypeError at the first element that is not a string; nothing
\* catches it but initialize, which logs and throws it again.
ConstructorThrows(data) ==
  \E i \in DOMAIN data : ~IsString(data[i])


(***************************************************************************)
(* dist/simple-semantic-sets.json and loadSemanticSets (both classes).     *)
(* A file is [exists |-> BOOLEAN, semanticSets |-> sequence of sets], a    *)
(* set being a sequence of terms.                                          *)
(***************************************************************************)
\* Faulty variant of loadSemanticSets: the terms keep the case they have in the file.
loadSemanticSetsAsWritten(file) ==
  IF ~file.exists THEN <<>> ELSE file.semanticSets

loadSemanticSets(file) ==
  IF ~file.exists THEN <<>>
  ELSE [s \in DOMAIN file.semanticSets |->
          [k \in DOMAIN file.semanticSets[s] |->
             toLowerCase(file.semanticSets[s][k])]]

(***************************************************************************)
(* BilingualTrie.  A TrieNode is named by its path from the root (the      *)
(* sequence of code points on its edges); children holds the keys of the   *)
(* node's children Map in insertion order.  termToTextIndices maps a term  *)
(* to its Set of positions, kept in insertion order.                       *)
(***************************************************************************)
null == <<"null">>

TrieNode == [children |-> <<>>, isEnd |-> FALSE, completeTerm |-> null]

\* The loop of insertTerm: creates the missing nodes on the path cps[1..k].
RECURSIVE InsertPath(_, _, _)
InsertPath(nodes, cps, k) ==
  IF k > Len(cps) THEN nodes
  ELSE LET parent == SubSeq(cps, 1, k - 1)
           child == SubSeq(cps, 1, k)
           char == cps[k]
       IN IF char \in Range(nodes[parent].children)
          THEN InsertPath(nodes, cps, k + 1)
          ELSE InsertPath(
                 [nodes EXCEPT ![parent].children = Append(@, char)]
                   @@ (child :> TrieNode),
                 cps, k + 1)

\* Faulty variant of insertTerm: the node at the end of the path is not
\* marked as the end of a term.
insertTermUnmarked(t, term, textIndex) ==
  IF term = <<>> THEN t
  ELSE LET table == IF term \in DOMAIN t.termToTextIndices
                    THEN t.termToTextIndices
                    ELSE t.termToTextIndices @@ (term :> <<>>)
       IN [t EXCEPT !.nodes = InsertPath(t.nodes, CodePoints(term), 1),
                    !.termToTextIndices =
                       [table EXCEPT ![term] = SetAdd(@, textIndex)]]

insertTerm(t, term, textIndex) ==
  IF term = <<>> THEN t
  ELSE LET cps == CodePoints(term)
           walked == InsertPath(t.nodes, cps, 1)
           marked == [walked EXCEPT ![cps].isEnd = TRUE,
                                    ![cps].completeTerm = term]
           table == IF term \in DOMAIN t.termToTextIndices
                    THEN t.termToTextIndices
                    ELSE t.termToTextIndices @@ (term :> <<>>)
       IN [t EXCEPT !.nodes = marked,
                    !.termToTextIndices =
                       [table EXCEPT ![term] = SetAdd(@, textIndex)]]

\* set.forEach(term => this.insertTerm(term, index))
RECURSIVE InsertSetTerms(_, _, _, _)
InsertSetTerms(t, set, k, index) ==
  IF k > Len(set) THEN t
  ELSE InsertSetTerms(insertTerm(t, set[k], index), set, k + 1, index)

\* set.some(term => textLower.includes(term))
SetMatchesText(set, textLower) ==
  \E k \in DOMAIN set : includes(textLower, set[k])

\* Faulty variant of TrieForEachSet: registers only the terms that occur in the text,
\* as buildMap does, instead of every term of a matching set.
RECURSIVE InsertMatchingTerms(_, _, _, _, _)
InsertMatchingTerms(t, set, k, textLower, index) ==
  IF k > Len(set) THEN t
  ELSE InsertMatchingTerms(
         IF includes(textLower, set[k]) THEN insertTerm(t, set[k], index) ELSE t,
         set, k + 1, textLower, index)

RECURSIVE TrieForEachSetMatchingOnly(_, _, _, _)
TrieForEachSetMatchingOnly(t, j, textLower, index) ==
  IF j > Len(t.semanticSets) THEN t
  ELSE TrieForEachSetMatchingOnly(
         InsertMatchingTerms(t, t.semanticSets[j], 1, textLower, index),
         j + 1, textLower, index)

\* Faulty variant of TrieForEachSet: registers the terms of every set, matching or
\* not.
RECURSIVE TrieForEachSetAlways(_, _, _, _)
TrieForEachSetAlways(t, j, textLower, index) ==
  IF j > Len(t.semanticSets) THEN t
  ELSE TrieForEachSetAlways(
         InsertSetTerms(t, t.semanticSets[j], 1, index),
         j + 1, textLower, index)

\* this.semanticSets.forEach(set => ...) for the document at position index
RECURSIVE TrieForEachSet(_, _, _, _)
TrieForEachSet(t, j, textLower, index) ==
  IF j > Len(t.semanticSets) THEN t
  ELSE LET set == t.semanticSets[j]
       IN TrieForEachSet(
            IF SetMatchesText(set, textLower)
            THEN InsertSetTerms(t, set, 1, index)
            ELSE t,
            j + 1, textLower, index)

\* this.data.forEach((text, index) => ...)
RECURSIVE TrieForEachText(_, _)
TrieForEachText(t, index) ==
  IF index >= Len(t.data) THEN t
  ELSE TrieForEachText(
         TrieForEachSet(t, 1, toLowerCase(t.data[index + 1]), index),
         index + 1)

buildTrie(t) ==
  IF Len(t.data) = 0 THEN t ELSE TrieForEachText(t, 0)

\* constructor + initialize
NewBilingualTrie(data, file) ==
  buildTrie([data |-> data,
             semanticSets |-> loadSemanticSets(file),
             nodes |-> (<<>> :> TrieNode),
             termToTextIndices |-> <<>>])

\* Faulty variant of collectCompletions: the term of the node itself only,
\* without the descent into the children.
CollectHereOnly(nodes, node, suggestions) ==
  IF nodes[node].isEnd /\ nodes[node].completeTerm # null
  THEN SetAdd(suggestions, nodes[node].completeTerm)
  ELSE suggestions

\* collectCompletions: depth-first, children in insertion order.
RECURSIVE collectCompletions(_, _, _)
RECURSIVE CollectChildren(_, _, _, _)
collectCompletions(nodes, node, suggestions) ==
  LET here == IF nodes[node].isEnd
                 /\ nodes[node].completeTerm # null
                 /\ nodes[node].completeTerm # <<>>
              THEN SetAdd(suggestions, nodes[node].completeTerm)
              ELSE suggestions
  IN CollectChildren(nodes, node, 1, here)

CollectChildren(nodes, node, k, suggestions) ==
  IF k > Len(nodes[node].children) THEN suggestions
  ELSE CollectChildren(nodes, node, k + 1,
         collectCompletions(nodes, Append(node, nodes[node].children[k]),
                            suggestions))

\* Faulty variant of WalkQuery: at a missing edge the walk stops (break) at
\* the node reached so far instead of returning.
RECURSIVE WalkQueryStopping(_, _, _)
WalkQueryStopping(nodes, cps, k) ==
  IF k > Len(cps) THEN [found |-> TRUE, node |-> cps]
  ELSE IF cps[k] \in Range(nodes[SubSeq(cps, 1, k - 1)].children)
       THEN WalkQueryStopping(nodes, cps, k + 1)
       ELSE [found |-> TRUE, node |-> SubSeq(cps, 1, k - 1)]

\* The walk of findCompletions: the node reached by the query's code
\* points, or no node when an edge is missing.
RECURSIVE WalkQuery(_, _, _)
WalkQuery(nodes, cps, k) ==
  IF k > Len(cps) THEN [found |-> TRUE, node |-> cps]
  ELSE IF cps[k] \in Range(nodes[SubSeq(cps, 1, k - 1)].children)
       THEN WalkQuery(nodes, cps, k + 1)
       ELSE [found |-> FALSE, node |-> <<>>]

findCompletions(t, query, suggestions) ==
  LET at == WalkQuery(t.nodes, CodePoints(query), 1)
  IN IF at.found THEN collectCompletions(t.nodes, at.node, suggestions)
     ELSE suggestions

getAutocompleteSuggestions(t, query) ==
  IF IsBlankQuery(query) THEN <<>>
  ELSE findCompletions(t, query, <<>>)

\* autocompleteSuggestions.forEach(term => ... matchedTextIndices.add(idx))
RECURSIVE CollectTextIndices(_, _, _, _)
CollectTextIndices(table, terms, k, matched) ==
  IF k > Len(terms) THEN matched
  ELSE CollectTextIndices(table, terms, k + 1,
         IF terms[k] \in DOMAIN table
         THEN SetAddAll(matched, table[terms[k]])
         ELSE matched)

\* BilingualTrie.search; indices is the sorted array before the final map.
TrieSearch(t, query) ==
  IF IsBlankQuery(query) THEN [indices |-> <<>>, texts |-> <<>>]
  ELSE LET lowerQuery == toLowerCase(query)
           autocompleteSuggestions == getAutocompleteSuggestions(t, lowerQuery)
           matchedTextIndices ==
             CollectTextIndices(t.termToTextIndices, autocompleteSuggestions,
                                1, <<>>)
           sorted == SortAscending(matchedTextIndices)
       IN [indices |-> sorted, texts |-> TextsAt(t.data, sorted)]

\* Faulty variant of countNodes: the node and its children, without the
\* recursion into them.
CountNodeAndChildren(nodes, node) == 1 + Len(nodes[node].children)

\* countNodes: the node and, recursively, its children.
RECURSIVE countNodes(_, _)
RECURSIVE CountChildren(_, _, _)
countNodes(nodes, node) == 1 + CountChildren(nodes, node, 1)

CountChildren(nodes, node, k) ==
  IF k > Len(nodes[node].children) THEN 0
  ELSE countNodes(nodes, Append(node, nodes[node].children[k]))
         + CountChildren(nodes, node, k + 1)

\* BilingualTrie.getStatistics
TrieGetStatistics(t) ==
  [totalTerms |-> Cardinality(DOMAIN t.termToTextIndices),
   totalTexts |-> Len(t.data),
   semanticSets |-> Len(t.semanticSets),
   nodeCount |-> countNodes(t.nodes, <<>>)]


(***************************************************************************)
(* BilingualMap.                                                           *)
(***************************************************************************)
addTermMapping(m, term, textIndex) ==
  IF term = <<>> THEN m
  ELSE LET table == IF term \in DOMAIN m.termToTextIndices
                    THEN m.termToTextIndices
                    ELSE m.termToTextIndices @@ (term :> <<>>)
       IN [m EXCEPT !.termToTextIndices =
                       [table EXCEPT ![term] = SetAdd(@, textIndex)]]

\* set.forEach(term => { if (textLower.includes(term)) addTermMapping })
RECURSIVE MapForEachTerm(_, _, _, _, _)
MapForEachTerm(m, set, k, textLower, index) ==
  IF k > Len(set) THEN m
  ELSE MapForEachTerm(
         IF includes(textLower, set[k])
         THEN addTermMapping(m, set[k], index)
         ELSE m,
         set, k + 1, textLower, index)

RECURSIVE MapForEachSet(_, _, _, _)
MapForEachSet(m, j, textLower, index) ==
  IF j > Len(m.semanticSets) THEN m
  ELSE MapForEachSet(
         MapForEachTerm(m, m.semanticSets[j], 1, textLower, index),
         j + 1, textLower, index)

RECURSIVE MapForEachText(_, _)
MapForEachText(m, index) ==
  IF index >= Len(m.data) THEN m
  ELSE MapForEachText(
         MapForEachSet(m, 1, toLowerCase(m.data[index + 1]), index),
         index + 1)

buildMap(m) ==
  IF Len(m.data) = 0 THEN m ELSE MapForEachText(m, 0)

\* constructor + initialize
NewBilingualMap(data, file) ==
  buildMap([data |-> data,
            semanticSets |-> loadSemanticSets(file),
            termToTextIndices |-> <<>>])

\* matchingSets: the Set of the semantic sets (array objects, so a set is
\* named by its place in semanticSets) having a term that starts with the
\* query, in insertion order.
RECURSIVE MatchingSets(_, _, _, _)
MatchingSets(sets, j, lowerQuery, matching) ==
  IF j > Len(sets) THEN matching
  ELSE MatchingSets(sets, j + 1, lowerQuery,
         IF \E k \in DOMAIN sets[j] : startsWith(sets[j][k], lowerQuery)
         THEN SetAdd(matching, j)
         ELSE matching)

\* matchingSets.forEach(set => set.forEach(term => ... resultIndices.add))
RECURSIVE CollectSetIndices(_, _, _, _)
CollectSetIndices(m, matching, i, result) ==
  IF i > Len(matching) THEN result
  ELSE CollectSetIndices(m, matching, i + 1,
         CollectTextIndices(m.termToTextIndices,
                            m.semanticSets[matching[i]], 1, result))

\* BilingualMap.search; indices is the sorted array before the final map.
MapSearch(m, query) ==
  IF IsBlankQuery(query) THEN [indices |-> <<>>, texts |-> <<>>]
  ELSE LET lowerQuery == toLowerCase(query)
           matchingSets == MatchingSets(m.semanticSets, 1, lowerQuery, <<>>)
           resultIndices == CollectSetIndices(m, matchingSets, 1, <<>>)
           sorted == SortAscending(resultIndices)
       IN [indices |-> sorted, texts |-> TextsAt(m.data, sorted)]

\* The terms of one set that start with the prefix, added to matchingTerms.
RECURSIVE PrefixTermsOfSet(_, _, _, _)
PrefixTermsOfSet(set, k, lowerPrefix, matchingTerms) ==
  IF k > Len(set) THEN matchingTerms
  ELSE PrefixTermsOfSet(set, k + 1, lowerPrefix,
         IF startsWith(set[k], lowerPrefix)
         THEN SetAdd(matchingTerms, set[k])
         ELSE matchingTerms)

RECURSIVE PrefixTermsOfSets(_, _, _, _)
PrefixTermsOfSets(sets, j, lowerPrefix, matchingTerms) ==
  IF j > Len(sets) THEN matchingTerms
  ELSE PrefixTermsOfSets(sets, j + 1, lowerPrefix,
         PrefixTermsOfSet(sets[j], 1, lowerPrefix, matchingTerms))

getTermsByPrefix(m, prefix) ==
  IF IsBlankQuery(prefix) THEN <<>>
  ELSE PrefixTermsOfSets(m.semanticSets, 1, toLowerCase(prefix), <<>>)

\* this.semanticSets.reduce((sum, set) => sum + set.length, 0)
RECURSIVE SumOfLengths(_, _, _)
SumOfLengths(sets, j, sum) ==
  IF j > Len(sets) THEN sum
  ELSE SumOfLengths(sets, j + 1, sum + Len(sets[j]))

\* BilingualMap.getStatistics; averageTermsPerSet is the quotient of the
\* pair <<sum of the set lengths, number of sets>>, and 0 for no set.
MapGetStatistics(m) ==
  [totalTerms |-> Cardinality(DOMAIN m.termToTextIndices),
   totalTexts |-> Len(m.data),
   semanticSets |-> Len(m.semanticSets),
   averageTermsPerSet |->
     IF Len(m.semanticSets) > 0
     THEN <<SumOfLengths(m.semanticSets, 1, 0), Len(m.semanticSets)>>
     ELSE <<0, 1>>]

\* BilingualMap.clear: the two Maps are emptied, semanticSets and data are
\* bound to new empty arrays.
clear(m) ==
  [m EXCEPT !.termToTextIndices = <<>>,
            !.semanticSets = <<>>,
            !.data = <<>>]

\* Faulty variant of SharedArrayAfterClear: clear empties the array in place
\* (this.data.length = 0).
SharedArrayTruncated(arr) == <<>>

\* The array the map's data field referred to before clear, which the caller
\* and the trie still refer to: "this.data = []" leaves its elements alone.
SharedArrayAfterClear(arr) == arr


(***************************************************************************)
(* The inputs: the sample texts handed to both constructors and the        *)
(* semantic-set file both classes read.                                    *)
(***************************************************************************)
\* The two texts are " HL" and "A "; the third element is not a string.
DocPool ==
  { <<" ", "H", "L">>, <<"A", " ">>, NotAString }

\* The three sets are ["a", "Aa"], ["Aa", "HL"] and ["", " a"].
SetPool ==
  { << <<"a">>, <<"A", "a">> >>,
    << <<"A", "a">>, <<"H", "L">> >>,
    << <<>>, <<" ", "a">> >> }

SeqsUpTo(S, n) == UNION {[1..k -> S] : k \in 0..n}

DataChoices == SeqsUpTo(DocPool, MaxDocs)

FileChoices ==
  {[exists |-> FALSE, semanticSets |-> <<>>]}
    \cup {[exists |-> TRUE, semanticSets |-> table] :
            table \in SeqsUpTo(SetPool, MaxSets)}

Queries == SeqsUpTo(Chars, MaxQueryLen)

(***************************************************************************)
(* The earlier BilingualTrie (the class of src/performance.js).  Its nodes *)
(* and its walks are those of the class above; its build goes through      *)
(* termMappings, which maps a term to the last semantic set that holds it. *)
(***************************************************************************)
\* try { JSON.parse(fs.readFileSync(...)) ... } catch { this.semanticSets = [] }
EarlierLoadSemanticSets(file) ==
  IF ~file.exists THEN <<>>
  ELSE [j \in DOMAIN file.semanticSets |->
          [k \in DOMAIN file.semanticSets[j] |->
             toLowerCase(file.semanticSets[j][k])]]

\* set.forEach(term => this.termMappings.set(term, set))
RECURSIVE EarlierMapTerms(_, _, _)
EarlierMapTerms(termMappings, set, k) ==
  IF k > Len(set) THEN termMappings
  ELSE EarlierMapTerms(
         IF set[k] \in DOMAIN termMappings
         THEN [termMappings EXCEPT ![set[k]] = set]
         ELSE termMappings @@ (set[k] :> set),
         set, k + 1)

\* this.semanticSets.forEach(set => ...), first loop of buildTrie
RECURSIVE EarlierMapSets(_, _, _)
EarlierMapSets(termMappings, sets, j) ==
  IF j > Len(sets) THEN termMappings
  ELSE EarlierMapSets(EarlierMapTerms(termMappings, sets[j], 1), sets, j + 1)

\* insertTerm of the earlier class: it has no guard on the term, so the
\* empty term marks the root and becomes a key.
EarlierInsertTerm(t, term, textIndex) ==
  LET cps == CodePoints(term)
      walked == InsertPath(t.nodes, cps, 1)
      marked == [walked EXCEPT ![cps].isEnd = TRUE,
                               ![cps].completeTerm = term]
      table == IF term \in DOMAIN t.termToTextIndices
               THEN t.termToTextIndices
               ELSE t.termToTextIndices @@ (term :> <<>>)
  IN [t EXCEPT !.nodes = marked,
               !.termToTextIndices =
                  [table EXCEPT ![term] = SetAdd(@, textIndex)]]

\* this.termMappings.get(term).some(t => textLower.includes(t))
EarlierTermMatches(t, set, term, textLower) ==
  SetMatchesText(t.termMappings[term], textLower)

\* set.forEach(term => { if (...) this.insertTerm(term, index) })
RECURSIVE EarlierForEachTerm(_, _, _, _, _)
EarlierForEachTerm(t, set, k, textLower, index) ==
  IF k > Len(set) THEN t
  ELSE EarlierForEachTerm(
         IF EarlierTermMatches(t, set, set[k], textLower)
         THEN EarlierInsertTerm(t, set[k], index)
         ELSE t,
         set, k + 1, textLower, index)

RECURSIVE EarlierForEachSet(_, _, _, _)
EarlierForEachSet(t, j, textLower, index) ==
  IF j > Len(t.semanticSets) THEN t
  ELSE EarlierForEachSet(
         EarlierForEachTerm(t, t.semanticSets[j], 1, textLower, index),
         j + 1, textLower, index)

RECURSIVE EarlierForEachText(_, _)
EarlierForEachText(t, index) ==
  IF index >= Len(t.data) THEN t
  ELSE EarlierForEachText(
         EarlierForEachSet(t, 1, toLowerCase(t.data[index + 1]), index),
         index + 1)

EarlierBuildTrie(t) ==
  EarlierForEachText(
    [t EXCEPT !.termMappings = EarlierMapSets(<<>>, t.semanticSets, 1)], 0)

\* The instance before buildTrie, as the constructor sets it up.
EarlierEmptyTrie(data, sets) ==
  [data |-> data,
   semanticSets |-> sets,
   termMappings |-> <<>>,
   nodes |-> (<<>> :> TrieNode),
   termToTextIndices |-> <<>>]

\* constructor of the earlier class
NewEarlierTrie(data, file) ==
  EarlierBuildTrie(EarlierEmptyTrie(data, EarlierLoadSemanticSets(file)))

\* getAutocompleteSuggestions of the earlier class: it lower-cases the query.
EarlierGetAutocompleteSuggestions(t, query) ==
  IF trim(query) = <<>> THEN <<>>
  ELSE findCompletions(t, toLowerCase(query), <<>>)

\* search of the earlier class
EarlierSearch(t, query) ==
  IF trim(query) = <<>> THEN [indices |-> <<>>, texts |-> <<>>]
  ELSE LET lowerQuery == toLowerCase(query)
           autocompleteSuggestions ==
             EarlierGetAutocompleteSuggestions(t, lowerQuery)
           matchedTextIndices ==
             CollectTextIndices(t.termToTextIndices, autocompleteSuggestions,
                                1, <<>>)
           sorted == SortAscending(matchedTextIndices)
       IN [indices |-> sorted, texts |-> TextsAt(t.data, sorted)]

VARIABLES
  earlier        \* a program that builds the earlier trie and searches it

EarlierIdle ==
  [data |-> <<>>, file |-> [exists |-> FALSE, semanticSets |-> <<>>],
   query |-> <<>>, pc |-> "idle",
   obj |-> EarlierEmptyTrie(<<>>, <<>>),
   results |-> [indices |-> <<>>, texts |-> <<>>]]

VARIABLES
  generator      \* a run of SemanticGenerator.exportSemanticSets and the
                 \* file dist/simple-semantic-sets.json it rewrites

GeneratorIdle ==
  [file |-> [exists |-> FALSE, semanticSets |-> <<>>],
   input |-> [isArray |-> TRUE, sets |-> <<>>],
   existing |-> <<>>, merged |-> <<>>, exports |-> 0, pc |-> "idle"]

VARIABLES
  monitor        \* a PerformanceMonitor and the last call made on it

\* The labels passed to the monitor: "a", "A", the empty string and a value
\* that is not a string.
Labels == { <<"a">>, <<"A">>, <<>>, NotAString }

\* !(!label || typeof label !== 'string')
ValidLabel(label) == label # <<>> /\ IsString(label)

ValidLabels == {label \in Labels : ValidLabel(label)}

\* Map.prototype.set on a map held as a function.
MapSet(f, key, value) ==
  IF key \in DOMAIN f THEN [f EXCEPT ![key] = value]
  ELSE f @@ (key :> value)

\* new PerformanceMonitor(); started and ended are the history of the
\* clock readings of each label's last successful start and end.
NewPerformanceMonitor ==
  [timers |-> <<>>, measurements |-> <<>>, clock |-> 1,
   started |-> <<>>, ended |-> <<>>]

NoCall ==
  [call |-> "none", label |-> <<>>, operation |-> "none", error |-> "none",
   before |-> NewPerformanceMonitor]

MonitorIdle ==
  [obj |-> NewPerformanceMonitor, last |-> NoCall, calls |-> 0, pc |-> "idle"]

VARIABLES
  ui             \* a SearchInterface, the input line it handled last and
                 \* what handling it did

\* new SearchInterface(trie, map, performanceMonitor); trie and map tell
\* whether an index was passed.  created, closed, prompts and searches count
\* the readline interfaces created and closed, the questions asked and the
\* searches performed; question holds while a question awaits its line.
NewSearchInterface(hasTrie, hasMap) ==
  [trie |-> hasTrie, map |-> hasMap,
   performanceMonitor |-> NewPerformanceMonitor,
   rl |-> "null", isRunning |-> FALSE, question |-> FALSE,
   created |-> 0, closed |-> 0, prompts |-> 0, searches |-> 0]

NoHandling ==
  [line |-> <<>>, action |-> "none", calls |-> <<>>, raised |-> "none",
   logged |-> "none"]

UIIdle ==
  [obj |-> NewSearchInterface(FALSE, FALSE), pc |-> "idle",
   last |-> NoHandling, lines |-> 0, cleanups |-> 0,
   exited |-> FALSE,
   atExit |-> [prompts |-> 0, searches |-> 0, closed |-> 0]]

VARIABLES
  loader         \* a DataLoader, the files it reads and writes, and the
                 \* last call made on it

\* A JSON value: null, an array (of strings and of values that are not
\* strings) or an object, which may have a semanticSets property.
NoProperty == [present |-> FALSE, isArray |-> FALSE, sets |-> <<>>]

JsonNull == [type |-> "null", items |-> <<>>, semanticSets |-> NoProperty]

JsonArray(items) ==
  [type |-> "array", items |-> items, semanticSets |-> NoProperty]

JsonObject(property) ==
  [type |-> "object", items |-> <<>>, semanticSets |-> property]

NoFile == [exists |-> FALSE, data |-> JsonNull]

Paths ==
  {"input/sample-texts.json", "input/translations.json",
   "dist/simple-semantic-sets.json"}

NoLoad ==
  [call |-> "none", path |-> "", error |-> "none", returned |-> JsonNull,
   cacheBefore |-> <<>>]

LoaderIdle ==
  [files |-> [path \in Paths |-> NoFile], cache |-> <<>>, last |-> NoLoad,
   calls |-> 0, pc |-> "idle"]

toolVars == <<earlier, generator, monitor, ui, loader>>

\* The components other than the two indexes and their caller are not in
\* use.
ToolsIdle ==
  /\ earlier = EarlierIdle
  /\ generator = GeneratorIdle
  /\ monitor = MonitorIdle
  /\ ui = UIIdle
  /\ loader = LoaderIdle

VARIABLES
  sampleData,    \* the array passed to new BilingualTrie / new BilingualMap
  setsFile,      \* dist/simple-semantic-sets.json
  query,         \* the query string the caller passes to the four calls
  trie,          \* AutocompleteApp.trie: the instance once constructed
  map,           \* AutocompleteApp.map
  pc,            \* the caller's place: the last call that has returned
  suggestions,   \* what trie.getAutocompleteSuggestions(query) returned
  trieResults,   \* what trie.search(query) returned
  mapResults,    \* what map.search(query) returned
  prefixTerms,   \* what map.getTermsByPrefix(query) returned
  statistics     \* what the two getStatistics() calls of showStats returned

mainVars == <<sampleData, setsFile, query, trie, map, pc,
              suggestions, trieResults, mapResults, prefixTerms, statistics>>

vars == <<mainVars, toolVars>>

\* What a step of one component leaves alone.
besideEarlier == <<mainVars, generator, monitor, ui, loader>>
besideGenerator == <<mainVars, earlier, monitor, ui, loader>>
besideMonitor == <<mainVars, earlier, generator, ui, loader>>
besideUI == <<mainVars, earlier, generator, monitor, loader>>
besideLoader == <<mainVars, earlier, generator, monitor, ui>>

NoTrie ==
  [constructed |-> FALSE,
   obj |-> [data |-> <<>>, semanticSets |-> <<>>,
            nodes |-> (<<>> :> TrieNode), termToTextIndices |-> <<>>]]

NoMap ==
  [constructed |-> FALSE,
   obj |-> [data |-> <<>>, semanticSets |-> <<>>, termToTextIndices |-> <<>>]]

NoTexts == [indices |-> <<>>, texts |-> <<>>]

NoStatistics ==
  [trie |-> TrieGetStatistics(NoTrie.obj), map |-> MapGetStatistics(NoMap.obj)]

\* The two indexes and their caller are not in use.
MainIdle ==
  /\ sampleData = <<>>
  /\ setsFile = [exists |-> FALSE, semanticSets |-> <<>>]
  /\ query = <<>>
  /\ trie = NoTrie
  /\ map = NoMap
  /\ pc = "idle"
  /\ suggestions = <<>>
  /\ trieResults = NoTexts
  /\ mapResults = NoTexts
  /\ prefixTerms = <<>>
  /\ statistics = NoStatistics

Init ==
  /\ sampleData \in DataChoices
  /\ setsFile \in FileChoices
  /\ query \in Queries
  /\ trie = NoTrie
  /\ map = NoMap
  /\ pc = "start"
  /\ suggestions = <<>>
  /\ trieResults = NoTexts
  /\ mapResults = NoTexts
  /\ prefixTerms = <<>>
  /\ statistics = NoStatistics
  /\ ToolsIdle

\* AutocompleteApp.initializeDataStructures(sampleData):
\*   new BilingualTrie(sampleData), then new BilingualMap(sampleData)
\* The first constructor throws on a document that is not a string; the
\* error leaves initializeDataStructures and AutocompleteApp.initialize
\* catches it: neither instance exists.
initializeDataStructures ==
  /\ pc = "start"
  /\ IF ConstructorThrows(sampleData)
     THEN /\ pc' = "failed"
          /\ UNCHANGED <<trie, map>>
     ELSE /\ trie' = [constructed |-> TRUE,
                      obj |-> NewBilingualTrie(sampleData, setsFile)]
          /\ map' = [constructed |-> TRUE,
                     obj |-> NewBilingualMap(sampleData, setsFile)]
          /\ pc' = "initialized"
  /\ UNCHANGED toolVars
  /\ UNCHANGED <<sampleData, setsFile, query, suggestions, trieResults,
                 mapResults, prefixTerms, statistics>>

\* The caller makes its calls with the one query in the order of
\* SearchInterface.performSearch: suggestions, trie search, map search;
\* map.getTermsByPrefix comes last.

\* trie.getAutocompleteSuggestions(query)
CallGetAutocompleteSuggestions ==
  /\ pc = "initialized"
  /\ suggestions' = getAutocompleteSuggestions(trie.obj, query)
  /\ pc' = "suggestions"
  /\ UNCHANGED toolVars
  /\ UNCHANGED <<sampleData, setsFile, query, trie, map,
                 trieResults, mapResults, prefixTerms, statistics>>

\* A side table without the entries of the terms in read.
WithoutEntries(table, read) ==
  [t \in DOMAIN table \ read |-> table[t]]

\* Faulty variant of CallTrieSearch: the search deletes the side-table
\* entries it has read.
CallTrieSearchConsuming ==
  /\ pc = "suggestions"
  /\ trieResults' = TrieSearch(trie.obj, query)
  /\ trie' = [trie EXCEPT !.obj.termToTextIndices =
                WithoutEntries(@, Range(getAutocompleteSuggestions(
                                          trie.obj, toLowerCase(query))))]
  /\ pc' = "trieSearch"
  /\ UNCHANGED toolVars
  /\ UNCHANGED <<sampleData, setsFile, query, map,
                 suggestions, mapResults, prefixTerms, statistics>>

\* Faulty variant of CallMapSearch: the search deletes every side-table
\* entry once it has collected the positions.
CallMapSearchConsuming ==
  /\ pc = "trieSearch"
  /\ mapResults' = MapSearch(map.obj, query)
  /\ map' = [map EXCEPT !.obj.termToTextIndices =
               IF mapResults'.indices = <<>> THEN @
               ELSE WithoutEntries(@, DOMAIN @)]
  /\ pc' = "mapSearch"
  /\ UNCHANGED toolVars
  /\ UNCHANGED <<sampleData, setsFile, query, trie,
                 suggestions, trieResults, prefixTerms, statistics>>

\* trie.search(query)
CallTrieSearch ==
  /\ pc = "suggestions"
  /\ trieResults' = TrieSearch(trie.obj, query)
  /\ pc' = "trieSearch"
  /\ UNCHANGED toolVars
  /\ UNCHANGED <<sampleData, setsFile, query, trie, map,
                 suggestions, mapResults, prefixTerms, statistics>>

\* map.search(query)
CallMapSearch ==
  /\ pc = "trieSearch"
  /\ mapResults' = MapSearch(map.obj, query)
  /\ pc' = "mapSearch"
  /\ UNCHANGED toolVars
  /\ UNCHANGED <<sampleData, setsFile, query, trie, map,
                 suggestions, trieResults, prefixTerms, statistics>>

\* map.getTermsByPrefix(query)
CallGetTermsByPrefix ==
  /\ pc = "mapSearch"
  /\ prefixTerms' = getTermsByPrefix(map.obj, query)
  /\ pc' = "prefixTerms"
  /\ UNCHANGED toolVars
  /\ UNCHANGED <<sampleData, setsFile, query, trie, map,
                 suggestions, trieResults, mapResults, statistics>>

\* SearchInterface.showStats: trie.getStatistics(), map.getStatistics()
showStats ==
  /\ pc = "prefixTerms"
  /\ statistics' = [trie |-> TrieGetStatistics(trie.obj),
                    map |-> MapGetStatistics(map.obj)]
  /\ pc' = "statistics"
  /\ UNCHANGED toolVars
  /\ UNCHANGED <<sampleData, setsFile, query, trie, map,
                 suggestions, trieResults, mapResults, prefixTerms>>

\* The position a caller of the two public inserting methods passes.
TextIndexChoices == {0}

\* The public methods that change an instance are called once the queries
\* have been answered, with the query string as the term.

\* trie.insertTerm(query, textIndex)
CallInsertTerm ==
  /\ pc = "statistics"
  /\ \E textIndex \in TextIndexChoices :
       trie' = [trie EXCEPT !.obj = insertTerm(@, query, textIndex)]
  /\ pc' = "insertTerm"
  /\ UNCHANGED toolVars
  /\ UNCHANGED <<sampleData, setsFile, query, map, suggestions, trieResults,
                 mapResults, prefixTerms, statistics>>

\* map.addTermMapping(query, textIndex)
CallAddTermMapping ==
  /\ pc = "statistics"
  /\ \E textIndex \in TextIndexChoices :
       map' = [map EXCEPT !.obj = addTermMapping(@, query, textIndex)]
  /\ pc' = "addTermMapping"
  /\ UNCHANGED toolVars
  /\ UNCHANGED <<sampleData, setsFile, query, trie, suggestions, trieResults,
                 mapResults, prefixTerms, statistics>>

\* map.clear(); the caller's array and the trie's data field are the array
\* the map's data field referred to.
CallClear ==
  /\ pc = "statistics"
  /\ map' = [map EXCEPT !.obj = clear(@)]
  /\ sampleData' = SharedArrayAfterClear(sampleData)
  /\ trie' = [trie EXCEPT !.obj.data = SharedArrayAfterClear(@)]
  /\ pc' = "clear"
  /\ UNCHANGED toolVars
  /\ UNCHANGED <<setsFile, query, suggestions, trieResults,
                 mapResults, prefixTerms, statistics>>

Next ==
  \/ initializeDataStructures
  \/ CallGetAutocompleteSuggestions
  \/ CallTrieSearch
  \/ CallMapSearch
  \/ CallGetTermsByPrefix
  \/ showStats
  \/ CallInsertTerm
  \/ CallAddTermMapping
  \/ CallClear

Spec == Init /\ [][Next]_vars

(***************************************************************************)
(* Vocabulary of the properties.                                           *)
(***************************************************************************)
\* The call has returned (its result is held).
Suggested == pc \in {"suggestions", "trieSearch", "mapSearch", "prefixTerms"}
TrieSearched == pc \in {"trieSearch", "mapSearch", "prefixTerms"}
MapSearched == pc \in {"mapSearch", "prefixTerms"}
PrefixResolved == pc = "prefixTerms"

\* The document positions, 0-based.
Positions == 0..(Len(sampleData) - 1)

\* s with its upper-case letters replaced by their lower-case forms.
FoldCase(s) ==
  [k \in DOMAIN s |-> IF s[k] = "A" THEN "a"
                      ELSE IF s[k] = "Q" THEN "q" ELSE s[k]]

\* The documents, lower-cased.
LowerCasedData == [i \in DOMAIN sampleData |-> FoldCase(sampleData[i])]

\* The semantic sets of the file, every term lower-cased; none when the
\* file is missing.
LoweredSets ==
  IF setsFile.exists
  THEN [s \in DOMAIN setsFile.semanticSets |->
          [k \in DOMAIN setsFile.semanticSets[s] |->
             FoldCase(setsFile.semanticSets[s][k])]]
  ELSE <<>>

\* u occurs in text as a contiguous substring.
IsSubstring(u, text) ==
  \E i \in 0..Len(text) : \E j \in i..Len(text) : SubSeq(text, i + 1, j) = u

\* p is a prefix of t, both read as sequences of code points.
IsPrefixOf(p, t) ==
  LET cp == CodePoints(p)
      ct == CodePoints(t)
  IN Len(cp) <= Len(ct) /\ \A k \in DOMAIN cp : cp[k] = ct[k]

\* s is empty or holds white space only.
Blank(s) == \A k \in DOMAIN s : s[k] = " "

\* The set S (of sets) has a term that occurs in the lower-cased text.
SetOccursIn(S, text) == \E k \in DOMAIN S : IsSubstring(S[k], text)

\* Some set of sets holding the term t has a term occurring in a text of
\* texts.
SomeSetOfTermOccurs(t, sets, texts) ==
  \E j \in DOMAIN sets :
     /\ t \in Range(sets[j])
     /\ \E i \in DOMAIN texts : SetOccursIn(sets[j], texts[i])

\* No semantic set of the file holds the empty string as a term.
NoEmptyTerm ==
  \A j \in DOMAIN setsFile.semanticSets :
     <<>> \notin Range(setsFile.semanticSets[j])

StrictlyAscending(seq) ==
  \A k \in DOMAIN seq : k < Len(seq) => seq[k] < seq[k + 1]

\* A search result returns the document at position i.
Returns(res, i) ==
  \E k \in DOMAIN res.indices :
     res.indices[k] = i /\ res.texts[k] = sampleData[i + 1]

\* The strings that differ from q in letter case only.
CaseVariants(q) ==
  {q2 \in [DOMAIN q -> Chars] : FoldCase(q2) = FoldCase(q)}

(***************************************************************************)
(* C1  Equivalence expansion (trie): when a term u of a semantic set S     *)
(* occurs in the lower-cased document at position i, trie.search(p)        *)
(* returns that document for every non-blank p that is a prefix (of whole  *)
(* code points) of any term t of S, whether or not t occurs in the         *)
(* document and whether or not t belongs to other sets as well.            *)
(***************************************************************************)
C1_EquivalenceExpansion ==
  (pc = "trieSearch" /\ ~Blank(query)) =>
    LET sets == LoweredSets
        texts == LowerCasedData
    IN \A j \in DOMAIN sets :
         (\E kt \in DOMAIN sets[j] : IsPrefixOf(query, sets[j][kt])) =>
           \A i \in Positions :
             SetOccursIn(sets[j], texts[i + 1]) => Returns(trieResults, i)

\* trie.search has returned a document for a prefix of a term t that does
\* not occur in the document, t belonging to two semantic sets, on the
\* strength of another, non-empty term u of the set.
C1_Witness ==
  /\ pc = "trieSearch"
  /\ ~Blank(query)
  /\ \E i \in Positions : \E j1, j2 \in DOMAIN LoweredSets :
       \E ku, kt \in DOMAIN LoweredSets[j1] :
         /\ j1 # j2
         /\ LoweredSets[j1][kt] \in Range(LoweredSets[j2])
         /\ LoweredSets[j1][ku] # <<>>
         /\ IsSubstring(LoweredSets[j1][ku], LowerCasedData[i + 1])
         /\ ~IsSubstring(LoweredSets[j1][kt], LowerCasedData[i + 1])
         /\ IsPrefixOf(query, LoweredSets[j1][kt])
         /\ Returns(trieResults, i)

(***************************************************************************)
(* C2  Trie/Map equivalence: for the same documents, semantic sets and     *)
(* query, trie.search and map.search return the same sequence of document  *)
(* positions (and so the same documents).                                  *)
(***************************************************************************)
C2_TrieMapEquivalence ==
  MapSearched =>
    /\ trieResults.indices = mapResults.indices
    /\ trieResults.texts = mapResults.texts

(***************************************************************************)
(* C3  Ordering: the positions of the documents a search returns (trie     *)
(* and map) are strictly ascending, so no position appears twice.          *)
(***************************************************************************)
C3_Ordering ==
  /\ TrieSearched => StrictlyAscending(trieResults.indices)
  /\ MapSearched => StrictlyAscending(mapResults.indices)

\* Both searches have returned two documents, and in the trie two completed
\* terms map to the same document.
C3_Witness ==
  /\ MapSearched
  /\ Len(trieResults.indices) = 2
  /\ Len(mapResults.indices) = 2
  /\ \E t1, t2 \in DOMAIN trie.obj.termToTextIndices :
       /\ t1 # t2
       /\ IsPrefixOf(query, t1) /\ IsPrefixOf(query, t2)
       /\ Range(trie.obj.termToTextIndices[t1])
            \cap Range(trie.obj.termToTextIndices[t2]) # {}

(***************************************************************************)
(* C4  Case insensitivity of search: in both variants the result of        *)
(* search(query) is the result of search(q2) for every q2 that differs     *)
(* from query in letter case only, and its positions are those the same    *)
(* query has on the index built from the lower-cased documents and the     *)
(* lower-cased semantic sets (the original case of documents and terms     *)
(* does not matter to what matches).                                       *)
(***************************************************************************)
LowerCasedFile == [exists |-> setsFile.exists, semanticSets |-> LoweredSets]

C4_CaseInsensitivity ==
  /\ pc = "trieSearch" =>
       /\ \A q2 \in CaseVariants(query) : TrieSearch(trie.obj, q2) = trieResults
       /\ TrieSearch(NewBilingualTrie(LowerCasedData, LowerCasedFile),
                     query).indices = trieResults.indices
  /\ pc = "mapSearch" =>
       /\ \A q2 \in CaseVariants(query) : MapSearch(map.obj, q2) = mapResults
       /\ MapSearch(NewBilingualMap(LowerCasedData, LowerCasedFile),
                    query).indices = mapResults.indices

\* Both searches have returned a document holding an upper-case letter for a
\* query holding one, through a semantic set of which a term written with an
\* upper-case letter starts with the lower-cased query.
C4_Witness ==
  /\ pc = "mapSearch"
  /\ query # FoldCase(query)
  /\ \E i \in Positions : \E j \in DOMAIN LoweredSets :
       \E k \in DOMAIN LoweredSets[j] :
         /\ sampleData[i + 1] # LowerCasedData[i + 1]
         /\ setsFile.semanticSets[j][k] # LoweredSets[j][k]
         /\ IsPrefixOf(FoldCase(query), LoweredSets[j][k])
         /\ SetOccursIn(LoweredSets[j], LowerCasedData[i + 1])
         /\ Returns(trieResults, i)
         /\ Returns(mapResults, i)

(***************************************************************************)
(* C5  Autocomplete normalizes its query: getAutocompleteSuggestions(q)    *)
(* returns the completions of the lower-cased q, so it returns the same    *)
(* terms for every case variant of q, and trie.search(q) is non-empty      *)
(* only if getAutocompleteSuggestions(q) is non-empty.  Stated for files   *)
(* without empty terms, where the registration of C10 plays no part.       *)
(***************************************************************************)
C5_AutocompleteNormalizes ==
  (pc = "trieSearch" /\ NoEmptyTerm) =>
    /\ \A q2 \in CaseVariants(query) :
         Range(getAutocompleteSuggestions(trie.obj, q2)) = Range(suggestions)
    /\ trieResults.indices # <<>> => suggestions # <<>>

(***************************************************************************)
(* C6  Empty query: for a query that is the empty string or white space    *)
(* only, trie.search, map.search, trie.getAutocompleteSuggestions and      *)
(* map.getTermsByPrefix each return an empty result.                       *)
(***************************************************************************)
C6_EmptyQuery ==
  Blank(query) =>
    /\ Suggested => suggestions = <<>>
    /\ TrieSearched => trieResults = NoTexts
    /\ MapSearched => mapResults = NoTexts
    /\ PrefixResolved => prefixTerms = <<>>

\* The four calls have returned for a query of white space only, a term
\* starting with that white space being registered in the trie and scanned
\* by the map's prefix resolver.
C6_Witness ==
  /\ PrefixResolved
  /\ query # <<>> /\ Blank(query)
  /\ \E t \in DOMAIN trie.obj.termToTextIndices : startsWith(t, query)
  /\ \E j \in DOMAIN map.obj.semanticSets :
       \E t \in Range(map.obj.semanticSets[j]) : startsWith(t, query)

(***************************************************************************)
(* C7  Unregistered term (trie): every term getAutocompleteSuggestions     *)
(* returns belongs to a semantic set of which some term occurs in some     *)
(* document, and has a non-empty position set in the side table; so a term *)
(* whose sets match no document is never returned.                         *)
(***************************************************************************)
C7_UnregisteredTerm ==
  pc = "suggestions" =>
    LET sets == LoweredSets
        texts == LowerCasedData
    IN \A t \in Range(suggestions) :
         /\ SomeSetOfTermOccurs(t, sets, texts)
         /\ t \in DOMAIN trie.obj.termToTextIndices
         /\ trie.obj.termToTextIndices[t] # <<>>

\* getAutocompleteSuggestions has returned a term for a query that is also
\* a prefix of a semantic-set term whose sets match no document.
C7_Witness ==
  /\ pc = "suggestions"
  /\ suggestions # <<>>
  /\ \E j \in DOMAIN LoweredSets : \E k \in DOMAIN LoweredSets[j] :
       /\ IsPrefixOf(query, LoweredSets[j][k])
       /\ ~SomeSetOfTermOccurs(LoweredSets[j][k], LoweredSets, LowerCasedData)
       /\ LoweredSets[j][k] \notin Range(suggestions)

(***************************************************************************)
(* C8  Map prefix resolver: for a lower-case non-blank query,              *)
(* map.getTermsByPrefix returns exactly the set of terms                   *)
(* trie.getAutocompleteSuggestions returns.  Stated for files without      *)
(* empty terms, where the registration of C10 plays no part.               *)
(***************************************************************************)
C8_PrefixResolversAgree ==
  (/\ PrefixResolved /\ NoEmptyTerm
   /\ ~Blank(query) /\ query = FoldCase(query))
  => Range(prefixTerms) = Range(suggestions)

(***************************************************************************)
(* C9  TermIndex membership (trie side table termToTextIndices), after     *)
(* build.                                                                  *)
(***************************************************************************)
AllTerms(sets) == UNION {Range(sets[j]) : j \in DOMAIN sets}

\* The term t occurs in some text of texts.
OccursInSomeText(t, texts) == \E i \in DOMAIN texts : IsSubstring(t, texts[i])

\* C9 as claimed: a term is a key of the side table if and only if it
\* belongs to a semantic set and occurs in a document; no key maps to an
\* empty position set.  Stated for files without empty terms, where the
\* registration of C10 plays no part.
C9_KeyIffTermOccurs ==
  (pc = "initialized" /\ NoEmptyTerm) =>
    LET sets == LoweredSets
        texts == LowerCasedData
        keys == DOMAIN trie.obj.termToTextIndices
    IN /\ \A t \in AllTerms(sets) \cup keys :
            t \in keys <=> (t \in AllTerms(sets) /\ OccursInSomeText(t, texts))
       /\ \A t \in keys : trie.obj.termToTextIndices[t] # <<>>

\* C9 as amended: a term is a key of the side table if and only if it is
\* not the empty string and belongs to a semantic set of which some term
\* (itself or another one, the empty string included) occurs in a
\* document; no key maps to an empty position set.
C9_KeyIffSomeSetOccurs ==
  pc = "initialized" =>
    LET sets == LoweredSets
        texts == LowerCasedData
        keys == DOMAIN trie.obj.termToTextIndices
    IN /\ \A t \in AllTerms(sets) \cup keys :
            t \in keys <=> (t # <<>> /\ SomeSetOfTermOccurs(t, sets, texts))
       /\ \A t \in keys : trie.obj.termToTextIndices[t] # <<>>

\* The built side table has a key that occurs in no document (its set has
\* another, non-empty term that does), and a term of the semantic sets is
\* not a key.
C9_Witness ==
  /\ pc = "initialized"
  /\ NoEmptyTerm
  /\ \E t \in DOMAIN trie.obj.termToTextIndices :
       ~OccursInSomeText(t, LowerCasedData)
  /\ \E t \in AllTerms(LoweredSets) : t \notin DOMAIN trie.obj.termToTextIndices

(***************************************************************************)
(* C10  Empty terms are skipped silently: the index built (side table and  *)
(* trie nodes; the map's side table) and the result of every query are     *)
(* those built from the same file without its empty-string terms.          *)
(***************************************************************************)
RECURSIVE WithoutEmpty(_)
WithoutEmpty(set) ==
  IF set = <<>> THEN <<>>
  ELSE IF Head(set) = <<>> THEN WithoutEmpty(Tail(set))
       ELSE <<Head(set)>> \o WithoutEmpty(Tail(set))

FileWithoutEmptyTerms ==
  [exists |-> setsFile.exists,
   semanticSets |-> [j \in DOMAIN setsFile.semanticSets |->
                       WithoutEmpty(setsFile.semanticSets[j])]]

C10_EmptyTermsSkipped ==
  pc # "start" =>
    LET t2 == NewBilingualTrie(sampleData, FileWithoutEmptyTerms)
        m2 == NewBilingualMap(sampleData, FileWithoutEmptyTerms)
    IN /\ trie.obj.nodes = t2.nodes
       /\ trie.obj.termToTextIndices = t2.termToTextIndices
       /\ map.obj.termToTextIndices = m2.termToTextIndices
       /\ Suggested => suggestions = getAutocompleteSuggestions(t2, query)
       /\ TrieSearched => trieResults = TrieSearch(t2, query)
       /\ MapSearched => mapResults = MapSearch(m2, query)
       /\ PrefixResolved => prefixTerms = getTermsByPrefix(m2, query)

(***************************************************************************)
(* C11  Prefix resolver result: for a non-blank query that is already      *)
(* lower-case, getAutocompleteSuggestions(query) lists exactly the         *)
(* registered terms (the keys of the side table) of which the query is a   *)
(* prefix, code point by code point, the query itself and terms at any     *)
(* depth included, each once; it is empty when the walk along the query's  *)
(* code points finds an edge missing.                                      *)
(***************************************************************************)
NoDuplicates(seq) == Cardinality(Range(seq)) = Len(seq)

C11_PrefixResolverResult ==
  (pc = "suggestions" /\ ~Blank(query) /\ query = FoldCase(query)) =>
    LET keys == DOMAIN trie.obj.termToTextIndices
    IN /\ Range(suggestions) = {t \in keys : IsPrefixOf(query, t)}
       /\ NoDuplicates(suggestions)
       /\ CodePoints(query) \notin DOMAIN trie.obj.nodes => suggestions = <<>>

\* The suggestions hold the query itself and a longer term.
C11_Witness ==
  /\ pc = "suggestions"
  /\ ~Blank(query) /\ query = FoldCase(query)
  /\ query \in Range(suggestions)
  /\ \E t \in Range(suggestions) : Len(t) > Len(query)

(***************************************************************************)
(* C12  Search is the union over completions: for a non-blank query,       *)
(* trie.search(query) returns exactly the documents whose positions lie in *)
(* the union of the side-table position sets of the terms of               *)
(* getAutocompleteSuggestions(lower-cased query); every returned document  *)
(* contains, case-insensitively, a term of a semantic set that has a term  *)
(* starting with the lower-cased query; every returned element is the      *)
(* unmodified entry of the document store at its position, never           *)
(* undefined.                                                              *)
(***************************************************************************)
C12_SearchIsUnionOverCompletions ==
  (pc = "trieSearch" /\ ~Blank(query)) =>
    LET table == trie.obj.termToTextIndices
        completions == Range(getAutocompleteSuggestions(trie.obj,
                                                        FoldCase(query)))
        sets == LoweredSets
        texts == LowerCasedData
    IN /\ completions \subseteq DOMAIN table
       /\ Range(trieResults.indices)
            = UNION {Range(table[t]) : t \in completions}
       /\ \A i \in Range(trieResults.indices) :
            \E j \in DOMAIN sets :
              /\ \E k \in DOMAIN sets[j] : startsWith(sets[j][k], FoldCase(query))
              /\ SetOccursIn(sets[j], texts[i + 1])
       /\ Len(trieResults.texts) = Len(trieResults.indices)
       /\ \A k \in DOMAIN trieResults.texts :
            /\ trieResults.indices[k] \in Positions
            /\ trieResults.texts[k] = sampleData[trieResults.indices[k] + 1]
            /\ trieResults.texts[k] # undefined

\* The search has returned a document written with an upper-case letter,
\* through two completions of the query.
C12_Witness ==
  /\ pc = "trieSearch"
  /\ ~Blank(query)
  /\ Len(suggestions) >= 2
  /\ \E k \in DOMAIN trieResults.texts :
       trieResults.texts[k] # FoldCase(trieResults.texts[k])

(***************************************************************************)
(* C13  Search is not full-text: when the lower-cased query is not a       *)
(* prefix of any term of any semantic set, search(query) returns no        *)
(* document in both variants, even when the query occurs in a document.    *)
(***************************************************************************)
PrefixOfNoTerm(q) ==
  LET sets == LoweredSets
  IN \A j \in DOMAIN sets : \A k \in DOMAIN sets[j] : ~startsWith(sets[j][k], q)

C13_SearchIsNotFullText ==
  PrefixOfNoTerm(FoldCase(query)) =>
    /\ pc = "trieSearch" => trieResults = NoTexts
    /\ pc = "mapSearch" => mapResults = NoTexts

\* Both searches have returned for a non-blank query that occurs in a
\* document whose position is registered for some term, and is a prefix of
\* no term.
C13_Witness ==
  /\ pc = "mapSearch"
  /\ ~Blank(query)
  /\ PrefixOfNoTerm(FoldCase(query))
  /\ \E i \in Positions :
       /\ IsSubstring(query, sampleData[i + 1])
       /\ \E t \in DOMAIN trie.obj.termToTextIndices :
            i \in Range(trie.obj.termToTextIndices[t])
       /\ \E t \in DOMAIN map.obj.termToTextIndices :
            i \in Range(map.obj.termToTextIndices[t])

(***************************************************************************)
(* C14  Degraded inputs give a valid empty index: when the semantic-set    *)
(* file is missing or its table is empty, or when there is no document,    *)
(* both constructions succeed without raising, the side tables are empty   *)
(* and the trie is its root only, and every search (both variants) and     *)
(* getAutocompleteSuggestions call returns an empty result.  The documents *)
(* are strings (documents that are not are the case of C15).               *)
(***************************************************************************)
Degraded ==
  \/ ~setsFile.exists
  \/ setsFile.semanticSets = <<>>
  \/ sampleData = <<>>

AllStrings == \A i \in DOMAIN sampleData : IsString(sampleData[i])

\* The caller is at or before its last query: no public method that changes
\* an instance has been called.
AsBuilt ==
  pc \in {"initialized", "suggestions", "trieSearch", "mapSearch",
          "prefixTerms", "statistics"}

TriePositionsAmongStrings(t) ==
  LET sets == LoweredSets
      texts == LowerCasedData
  IN {i \in Positions :
        /\ IsString(sampleData[i + 1])
        /\ \E j \in DOMAIN sets :
             t \in Range(sets[j]) /\ SetOccursIn(sets[j], texts[i + 1])}

\* The positions of the string documents in which t occurs.
MapPositionsAmongStrings(t) ==
  {i \in Positions :
     /\ IsString(sampleData[i + 1])
     /\ IsSubstring(t, LowerCasedData[i + 1])}

C15_MalformedDocumentsIgnored ==
  (~AllStrings /\ pc # "start") =>
    /\ pc # "failed"
    /\ trie.constructed /\ map.constructed
    /\ AsBuilt =>
         \A t \in AllTerms(LoweredSets) \ {<<>>} :
           /\ t \in DOMAIN trie.obj.termToTextIndices
                <=> TriePositionsAmongStrings(t) # {}
           /\ t \in DOMAIN trie.obj.termToTextIndices
                => Range(trie.obj.termToTextIndices[t])
                     = TriePositionsAmongStrings(t)
           /\ t \in DOMAIN map.obj.termToTextIndices
                <=> MapPositionsAmongStrings(t) # {}
           /\ t \in DOMAIN map.obj.termToTextIndices
                => Range(map.obj.termToTextIndices[t])
                     = MapPositionsAmongStrings(t)

(***************************************************************************)
(* C16  Queries are pure: every step that is a call of search,             *)
(* getAutocompleteSuggestions, getTermsByPrefix or getStatistics leaves    *)
(* the trie nodes, the side tables, the semantic sets and the document     *)
(* store as they were; and once all of them have been called, calling any  *)
(* of them again returns what it returned in its turn.                     *)
(***************************************************************************)
QueryPlaces ==
  {"suggestions", "trieSearch", "mapSearch", "prefixTerms", "statistics"}

C16_QueriesArePure ==
  /\ [][pc' \in QueryPlaces
          => /\ trie' = trie
             /\ map' = map
             /\ sampleData' = sampleData
             /\ setsFile' = setsFile]_vars
  /\ [](pc = "statistics" =>
          /\ getAutocompleteSuggestions(trie.obj, query) = suggestions
          /\ TrieSearch(trie.obj, query) = trieResults
          /\ MapSearch(map.obj, query) = mapResults
          /\ getTermsByPrefix(map.obj, query) = prefixTerms
          /\ TrieGetStatistics(trie.obj) = statistics.trie
          /\ MapGetStatistics(map.obj) = statistics.map)

\* All five calls have returned, the searches with documents, on an index
\* that holds terms.
C16_Witness ==
  /\ pc = "statistics"
  /\ trieResults.indices # <<>>
  /\ mapResults.indices # <<>>
  /\ suggestions # <<>>
  /\ prefixTerms # <<>>
  /\ statistics.trie.nodeCount > 1

C18_IndexImmutable ==
  [][(trie.constructed /\ map.constructed) =>
       /\ trie'.obj.nodes = trie.obj.nodes
       /\ trie'.obj.termToTextIndices = trie.obj.termToTextIndices
       /\ trie'.obj.data = trie.obj.data
       /\ map'.obj.termToTextIndices = map.obj.termToTextIndices
       /\ map'.obj.data = map.obj.data
       /\ TrieSearch(trie'.obj, query) = TrieSearch(trie.obj, query)
       /\ MapSearch(map'.obj, query) = MapSearch(map.obj, query)]_vars

(***************************************************************************)
(* C19  Instances do not interfere: the trie and the map being built from  *)
(* the same document array, an operation on the map (clear,                *)
(* addTermMapping) leaves the results of the trie's queries as they were,  *)
(* and an operation on the trie (insertTerm) leaves the results of the     *)
(* map's queries as they were.                                             *)
(***************************************************************************)
C19_InstancesDoNotInterfere ==
  /\ pc \in {"clear", "addTermMapping"} =>
       /\ TrieGetStatistics(trie.obj) = statistics.trie
       /\ getAutocompleteSuggestions(trie.obj, query) = suggestions
       /\ TrieSearch(trie.obj, query) = trieResults
  /\ pc = "insertTerm" =>
       /\ MapGetStatistics(map.obj) = statistics.map
       /\ MapSearch(map.obj, query) = mapResults
       /\ getTermsByPrefix(map.obj, query) = prefixTerms

\* The map has been cleared after both searches had returned documents.
C19_Witness ==
  /\ pc = "clear"
  /\ map.obj.data = <<>>
  /\ map.obj.termToTextIndices = <<>>
  /\ mapResults.indices # <<>>
  /\ trieResults.indices # <<>>

(***************************************************************************)
(* C20  Trie structural invariant, after build: the code points on the     *)
(* path from the root to a terminal node spell the term stored in its      *)
(* completeTerm; the terms stored at terminal nodes are the keys of the    *)
(* side table; every node other than the root lies on the path of a        *)
(* registered term, so that every leaf is terminal.                        *)
(***************************************************************************)
\* The string spelled by a path of code points.
RECURSIVE Spelled(_)
Spelled(path) ==
  IF path = <<>> THEN <<>> ELSE Head(path) \o Spelled(Tail(path))

C20_TrieStructure ==
  pc = "initialized" =>
    LET nodes == trie.obj.nodes
        keys == DOMAIN trie.obj.termToTextIndices
        terminal == {n \in DOMAIN nodes : nodes[n].isEnd}
    IN /\ \A n \in terminal : nodes[n].completeTerm = Spelled(n)
       /\ {nodes[n].completeTerm : n \in terminal} = keys
       /\ \A n \in DOMAIN nodes \ {<<>>} :
            \E t \in keys : IsPrefixOf(Spelled(n), t)
       /\ \A n \in DOMAIN nodes :
            nodes[n].children = <<>> /\ n # <<>> => nodes[n].isEnd

\* The built trie has a node other than the root that is not terminal, a
\* terminal node below it, and an edge labelled by a surrogate pair.
C20_Witness ==
  /\ pc = "initialized"
  /\ \E n \in DOMAIN trie.obj.nodes \ {<<>>} :
       /\ ~trie.obj.nodes[n].isEnd
       /\ \E c \in Range(trie.obj.nodes[n].children) :
            trie.obj.nodes[Append(n, c)].isEnd
  /\ \E n \in DOMAIN trie.obj.nodes : Len(Spelled(n)) > Len(n)

(***************************************************************************)
(* C21  Statistics are derived values of the built index: getStatistics    *)
(* returns totalTerms equal to the number of distinct registered terms     *)
(* (for the trie, also the number of terminal nodes), totalTexts equal to  *)
(* the number of documents and semanticSets equal to the number of         *)
(* semantic sets; the trie's nodeCount is 1 plus the number of distinct    *)
(* non-empty prefixes (in code points) of registered terms.                *)
(***************************************************************************)
\* The non-empty prefixes, as sequences of code points, of the terms.
PrefixesOf(terms) ==
  UNION {{SubSeq(CodePoints(t), 1, k) : k \in 1..Len(CodePoints(t))} :
           t \in terms}

C21_StatisticsAreDerived ==
  pc = "statistics" =>
    LET trieKeys == DOMAIN trie.obj.termToTextIndices
        mapKeys == DOMAIN map.obj.termToTextIndices
        nodes == trie.obj.nodes
        nSets == IF setsFile.exists THEN Len(setsFile.semanticSets) ELSE 0
    IN /\ statistics.trie.totalTerms = Cardinality(trieKeys)
       /\ statistics.trie.totalTerms
            = Cardinality({n \in DOMAIN nodes : nodes[n].isEnd})
       /\ statistics.trie.totalTexts = Len(sampleData)
       /\ statistics.trie.semanticSets = nSets
       /\ statistics.trie.nodeCount = 1 + Cardinality(PrefixesOf(trieKeys))
       /\ statistics.map.totalTerms = Cardinality(mapKeys)
       /\ statistics.map.totalTexts = Len(sampleData)
       /\ statistics.map.semanticSets = nSets

\* showStats has returned for a trie whose registered terms share a prefix
\* and reach a depth of two.
C21_Witness ==
  /\ pc = "statistics"
  /\ statistics.trie.totalTerms >= 2
  /\ statistics.trie.nodeCount > statistics.trie.totalTerms + 1
  /\ statistics.map.totalTerms >= 1
  /\ \E n \in DOMAIN trie.obj.nodes : Len(n) >= 2

(***************************************************************************)
(* A program that builds the earlier trie (src/performance.js) from a      *)
(* document array and the semantic-set file, and searches it once.         *)
(***************************************************************************)
EarlierInit ==
  /\ MainIdle
  /\ generator = GeneratorIdle
  /\ monitor = MonitorIdle
  /\ ui = UIIdle
  /\ loader = LoaderIdle
  /\ \E data \in DataChoices : \E file \in FileChoices : \E q \in Queries :
       earlier = [EarlierIdle EXCEPT !.data = data, !.file = file,
                                     !.query = q, !.pc = "start"]

\* new BilingualTrie(data); no handler catches the TypeError of
\* text.toLowerCase() on a document that is not a string.
constructEarlierTrie ==
  /\ earlier.pc = "start"
  /\ earlier' =
       IF ConstructorThrows(earlier.data)
       THEN [earlier EXCEPT !.pc = "failed"]
       ELSE [earlier EXCEPT !.pc = "built",
                            !.obj = NewEarlierTrie(earlier.data, earlier.file)]
  /\ UNCHANGED besideEarlier

\* trie.search(query)
CallEarlierSearch ==
  /\ earlier.pc = "built"
  /\ earlier' = [earlier EXCEPT
                   !.pc = "searched",
                   !.results = EarlierSearch(earlier.obj, earlier.query)]
  /\ UNCHANGED besideEarlier

EarlierNext ==
  \/ constructEarlierTrie
  \/ CallEarlierSearch

EarlierSpec == EarlierInit /\ [][EarlierNext]_vars

(***************************************************************************)
(* C22  Multi-set tolerance in the earlier trie: for every document at     *)
(* position i, every semantic set S and terms u, t of S (t possibly a term *)
(* of other sets too), if u occurs in the lower-cased document then        *)
(* search(p) returns the document for every non-blank prefix p of t; and   *)
(* the search returns the positions the trie of                            *)
(* src/src/data-structures/trie.js returns.                                *)
(***************************************************************************)
C22_EarlierMultiSetTolerance ==
  (earlier.pc = "searched" /\ ~Blank(earlier.query)) =>
    LET sets == [j \in DOMAIN earlier.file.semanticSets |->
                   [k \in DOMAIN earlier.file.semanticSets[j] |->
                      FoldCase(earlier.file.semanticSets[j][k])]]
        texts == [i \in DOMAIN earlier.data |-> FoldCase(earlier.data[i])]
        q == FoldCase(earlier.query)
    IN /\ \A i \in DOMAIN texts : \A j \in DOMAIN sets :
            (/\ SetOccursIn(sets[j], texts[i])
             /\ \E k \in DOMAIN sets[j] : IsPrefixOf(q, sets[j][k]))
            => \E n \in DOMAIN earlier.results.indices :
                  /\ earlier.results.indices[n] = i - 1
                  /\ earlier.results.texts[n] = earlier.data[i]
       /\ earlier.results.indices
            = TrieSearch(NewBilingualTrie(earlier.data, earlier.file),
                         earlier.query).indices

(***************************************************************************)
(* SemanticGenerator (src/src/generators/semantic-generator.js): the merge *)
(* of newly generated semantic sets into the exported table.               *)
(***************************************************************************)
MaxExports == 2

\* Faulty variant of HasAnyExistingTerm: the new term is looked up as
\* written.
HasAnyExistingTermAsWritten(existingTermsMap, newSet) ==
  \E n \in DOMAIN newSet : newSet[n] \in existingTermsMap

\* newSet.some(newTerm => existingTermsMap.has(newTerm.toLowerCase()))
HasAnyExistingTerm(existingTermsMap, newSet) ==
  \E n \in DOMAIN newSet : toLowerCase(newSet[n]) \in existingTermsMap

\* newSets.forEach(newSet => ...): a set holding an existing term is
\* skipped, any other set is pushed; existingTermsMap is not updated.
RECURSIVE MergeForEach(_, _, _, _)
MergeForEach(existingTermsMap, mergedSets, newSets, j) ==
  IF j > Len(newSets) THEN mergedSets
  ELSE MergeForEach(existingTermsMap,
                    IF HasAnyExistingTerm(existingTermsMap, newSets[j])
                    THEN mergedSets
                    ELSE Append(mergedSets, newSets[j]),
                    newSets, j + 1)

\* The keys of existingTermsMap.
ExistingTermsMap(existingSets) ==
  UNION {{toLowerCase(existingSets[i][k]) : k \in DOMAIN existingSets[i]} :
           i \in DOMAIN existingSets}

mergeSemanticSets(existingSets, newSets) ==
  IF existingSets = <<>> THEN newSets
  ELSE IF newSets = <<>> THEN existingSets
  ELSE MergeForEach(ExistingTermsMap(existingSets), existingSets, newSets, 1)

\* The sets ["a"], ["A", "Aa"], ["HL"] and the empty set.
GeneratedSetPool ==
  { << <<"a">> >>,
    << <<"A">>, <<"A", "a">> >>,
    << <<"H", "L">> >>,
    <<>> }

GeneratorInit ==
  /\ MainIdle
  /\ earlier = EarlierIdle
  /\ monitor = MonitorIdle
  /\ ui = UIIdle
  /\ loader = LoaderIdle
  /\ \E table \in SeqsUpTo(GeneratedSetPool, MaxSets) :
     \E exists \in BOOLEAN :
     \E sets \in SeqsUpTo(GeneratedSetPool, MaxSets) :
     \E isArray \in BOOLEAN :
       /\ exists \/ table = <<>>
       /\ isArray \/ sets = <<>>
       /\ generator = [GeneratorIdle EXCEPT
                         !.file = [exists |-> exists, semanticSets |-> table],
                         !.input = [isArray |-> isArray, sets |-> sets],
                         !.pc = "ready"]

\* exportSemanticSets(semanticSets): the table of the existing file, if
\* there is one, is merged with the argument and the file is rewritten.
exportSemanticSets ==
  /\ generator.pc \in {"ready", "exported"}
  /\ generator.exports < MaxExports
  /\ generator' =
       IF ~generator.input.isArray
       THEN [generator EXCEPT !.pc = "failed"]
       ELSE LET existingSets ==
                  IF generator.file.exists THEN generator.file.semanticSets
                  ELSE <<>>
                mergedSets ==
                  mergeSemanticSets(existingSets, generator.input.sets)
            IN [generator EXCEPT
                  !.existing = existingSets,
                  !.merged = mergedSets,
                  !.file = [exists |-> TRUE, semanticSets |-> mergedSets],
                  !.exports = @ + 1,
                  !.pc = "exported"]
  /\ UNCHANGED besideGenerator

GeneratorNext ==
  \/ exportSemanticSets

GeneratorSpec == GeneratorInit /\ [][GeneratorNext]_vars

\* The new set shares a term, letter case apart, with a set of the table.
SharesATerm(set, table) ==
  \E n \in DOMAIN set : \E i \in DOMAIN table : \E k \in DOMAIN table[i] :
     FoldCase(set[n]) = FoldCase(table[i][k])

\* The sets of news, in order, that share no term with the table.
RECURSIVE SharingNone(_, _)
SharingNone(news, table) ==
  IF news = <<>> THEN <<>>
  ELSE (IF SharesATerm(Head(news), table) THEN <<>> ELSE <<Head(news)>>)
         \o SharingNone(Tail(news), table)

(***************************************************************************)
(* C23  mergeSemanticSets(existing, new) with both non-empty returns the   *)
(* existing sets unchanged and in their order, followed in input order by  *)
(* exactly the new sets that share no term, letter case apart, with an     *)
(* existing set; a new set sharing a term is dropped whole.                *)
(***************************************************************************)
C23_MergeKeepsExistingAppendsDisjoint ==
  (/\ generator.pc = "exported"
   /\ generator.existing # <<>>
   /\ generator.input.sets # <<>>)
  => /\ generator.merged
          = generator.existing
              \o SharingNone(generator.input.sets, generator.existing)
     /\ generator.file.semanticSets = generator.merged

\* A merge in which one new set is dropped for a term that differs in letter
\* case only from an existing one, and another new set is appended.
C23_Witness ==
  /\ generator.pc = "exported"
  /\ generator.existing # <<>>
  /\ Len(generator.input.sets) >= 2
  /\ \E j \in DOMAIN generator.input.sets :
       /\ SharesATerm(generator.input.sets[j], generator.existing)
       /\ \A n \in DOMAIN generator.input.sets[j] :
          \A i \in DOMAIN generator.existing :
          \A k \in DOMAIN generator.existing[i] :
             generator.input.sets[j][n] # generator.existing[i][k]
  /\ Len(generator.merged) > Len(generator.existing)

(***************************************************************************)
(* C24  Re-exporting is idempotent: for the existing table E and the new   *)
(* table N, mergeSemanticSets(mergeSemanticSets(E, N), N) equals           *)
(* mergeSemanticSets(E, N), and a second export of the same N leaves the   *)
(* exported table as the first export wrote it.                            *)
(***************************************************************************)
C24_ReexportIsIdempotent ==
  generator.pc = "exported" =>
    /\ mergeSemanticSets(generator.merged, generator.input.sets)
         = generator.merged
    /\ generator.exports >= 2 => generator.merged = generator.existing

(***************************************************************************)
(* PerformanceMonitor (src/src/utils/performance.js).  A call returns the  *)
(* monitor as it leaves it and the error it raises ("none": it returns).   *)
(* process.hrtime.bigint() is a positive reading that grows at every read. *)
(***************************************************************************)
MaxCalls == 3

\* Faulty variant of StartTimerWhenRunning: the running timer is restarted.
RestartTimerWhenRunning(m, label) ==
  [m |-> [m EXCEPT !.timers = MapSet(@, label, m.clock),
                   !.clock = @ + 1,
                   !.started = MapSet(@, label, m.clock)],
   error |-> "none"]

\* if (this.timers.has(label)) throw new Error(`... is already running`)
StartTimerWhenRunning(m, label) ==
  [m |-> m, error |-> "already running"]

startTimer(m, label) ==
  IF ~ValidLabel(label) THEN [m |-> m, error |-> "label"]
  ELSE IF label \in DOMAIN m.timers THEN StartTimerWhenRunning(m, label)
  ELSE [m |-> [m EXCEPT !.timers = MapSet(@, label, m.clock),
                        !.clock = @ + 1,
                        !.started = MapSet(@, label, m.clock)],
        error |-> "none"]

endTimer(m, label) ==
  IF ~ValidLabel(label) THEN [m |-> m, error |-> "label", duration |-> 0]
  ELSE IF label \notin DOMAIN m.timers
  THEN [m |-> m, error |-> "was not started", duration |-> 0]
  ELSE [m |-> [m EXCEPT
                 !.timers = [l \in (DOMAIN @) \ {label} |-> @[l]],
                 !.clock = @ + 1,
                 !.ended = MapSet(@, label, m.clock)],
        error |-> "none",
        duration |-> m.clock - m.timers[label]]

\* The operations passed to measureOperation: one that returns, one that
\* throws, one that calls measureOperation with the same label, one that
\* calls it with the other label, and a value that is not a function.
Operations == {"returns", "throws", "nests", "nestsOther", "notAFunction"}

OtherLabel(label) == IF label = <<"a">> THEN <<"A">> ELSE <<"a">>

RECURSIVE measureOperation(_, _, _)
\* result = operation(): the monitor as the operation leaves it and the
\* error it throws.
RunOperation(m, label, operation) ==
  CASE operation = "returns" -> [m |-> m, error |-> "none"]
    [] operation = "throws" -> [m |-> m, error |-> "operation"]
    [] operation = "nests" ->
         measureOperation(m, label, "returns")
    [] operation = "nestsOther" ->
         measureOperation(m, OtherLabel(label), "returns")

\* this.measurements.set(label, {...})
SetMeasurement(m, label, duration) ==
  [m EXCEPT !.measurements = MapSet(@, label, duration)]

\* Faulty variant of FinishOperation: an operation that throws is not
\* caught, so its error leaves measureOperation at once.
FinishOperationUnlessThrown(ran, label) ==
  IF ran.error # "none" THEN ran
  ELSE LET ended == endTimer(ran.m, label)
       IN IF ended.error # "none"
          THEN [m |-> ended.m, error |-> ended.error]
          ELSE [m |-> SetMeasurement(ended.m, label, ended.duration),
                error |-> "none"]

\* What follows the try/catch around operation(): the timer is ended, the
\* measurement stored and the caught error, if any, thrown again.
FinishOperation(ran, label) ==
  LET ended == endTimer(ran.m, label)
  IN IF ended.error # "none"
     THEN [m |-> ended.m, error |-> ended.error]
     ELSE [m |-> SetMeasurement(ended.m, label, ended.duration),
           error |-> ran.error]

measureOperation(m, label, operation) ==
  IF ~ValidLabel(label) THEN [m |-> m, error |-> "label"]
  ELSE IF operation = "notAFunction" THEN [m |-> m, error |-> "function"]
  ELSE
    LET started == startTimer(m, label)
    IN IF started.error # "none" THEN started
       ELSE FinishOperation(RunOperation(started.m, label, operation), label)

MonitorInit ==
  /\ MainIdle
  /\ earlier = EarlierIdle
  /\ generator = GeneratorIdle
  /\ monitor = [MonitorIdle EXCEPT !.pc = "ready"]
  /\ ui = UIIdle
  /\ loader = LoaderIdle

\* monitor.startTimer(label)
CallStartTimer ==
  /\ monitor.pc = "ready"
  /\ monitor.calls < MaxCalls
  /\ \E label \in Labels :
       LET call == startTimer(monitor.obj, label)
       IN monitor' = [monitor EXCEPT
                        !.obj = call.m,
                        !.calls = @ + 1,
                        !.last = [call |-> "startTimer", label |-> label,
                                  operation |-> "none", error |-> call.error,
                                  before |-> monitor.obj]]
  /\ UNCHANGED besideMonitor

\* monitor.endTimer(label)
CallEndTimer ==
  /\ monitor.pc = "ready"
  /\ monitor.calls < MaxCalls
  /\ \E label \in Labels :
       LET call == endTimer(monitor.obj, label)
       IN monitor' = [monitor EXCEPT
                        !.obj = call.m,
                        !.calls = @ + 1,
                        !.last = [call |-> "endTimer", label |-> label,
                                  operation |-> "none", error |-> call.error,
                                  before |-> monitor.obj]]
  /\ UNCHANGED besideMonitor

\* monitor.measureOperation(label, operation)
CallMeasureOperation ==
  /\ monitor.pc = "ready"
  /\ monitor.calls < MaxCalls
  /\ \E label \in Labels : \E operation \in Operations :
       LET call == measureOperation(monitor.obj, label, operation)
       IN monitor' = [monitor EXCEPT
                        !.obj = call.m,
                        !.calls = @ + 1,
                        !.last = [call |-> "measureOperation",
                                  label |-> label, operation |-> operation,
                                  error |-> call.error,
                                  before |-> monitor.obj]]
  /\ UNCHANGED besideMonitor

MonitorNext ==
  \/ CallStartTimer
  \/ CallEndTimer
  \/ CallMeasureOperation

MonitorSpec == MonitorInit /\ [][MonitorNext]_vars

\* isTimerRunning(label) on the monitor m
isTimerRunning(m, label) == label \in DOMAIN m.timers

\* The clock reading of the label's last successful start and of its last
\* successful end (0: there was none).
LastStarted(m, label) ==
  IF label \in DOMAIN m.started THEN m.started[label] ELSE 0

LastEnded(m, label) ==
  IF label \in DOMAIN m.ended THEN m.ended[label] ELSE 0

(***************************************************************************)
(* C25  Timer protocol: startTimer(label) raises an error and leaves the   *)
(* running timers unchanged when a timer with that label is running;       *)
(* endTimer(label) raises an error and leaves all state unchanged when no  *)
(* timer with that label is running; a successful endTimer removes exactly *)
(* that label's timer.  Hence a label is running iff it was started more   *)
(* recently than it was last ended.                                        *)
(***************************************************************************)
C25_TimerProtocol ==
  LET before == monitor.last.before
      label == monitor.last.label
  IN /\ (monitor.last.call = "startTimer" /\ isTimerRunning(before, label))
          => /\ monitor.last.error # "none"
             /\ monitor.obj.timers = before.timers
     /\ (monitor.last.call = "endTimer" /\ ~isTimerRunning(before, label))
          => /\ monitor.last.error # "none"
             /\ monitor.obj.timers = before.timers
             /\ monitor.obj.measurements = before.measurements
     /\ (monitor.last.call = "endTimer" /\ monitor.last.error = "none")
          => /\ isTimerRunning(before, label)
             /\ DOMAIN monitor.obj.timers = (DOMAIN before.timers) \ {label}
             /\ \A l \in DOMAIN monitor.obj.timers :
                   monitor.obj.timers[l] = before.timers[l]
     /\ \A l \in ValidLabels :
          isTimerRunning(monitor.obj, l)
            <=> LastStarted(monitor.obj, l) > LastEnded(monitor.obj, l)

\* A second start of a running label has been refused, on a monitor where
\* some label was started and ended before and is not running.
C25_Witness ==
  /\ monitor.last.call = "startTimer"
  /\ isTimerRunning(monitor.last.before, monitor.last.label)
  /\ monitor.last.error = "already running"
  /\ \E l \in ValidLabels :
       LastEnded(monitor.obj, l) > 0 /\ ~isTimerRunning(monitor.obj, l)

MaxLines == 2

exitCommands ==
  { <<"q", "u", "i", "t">>, <<"e", "x", "i", "t">>, <<"q">>,
    <<"b", "y", "e">> }

helpCommands ==
  { <<"h", "e", "l", "p">>, <<"h">>, <<"?">>,
    <<"c", "o", "m", "m", "a", "n", "d", "s">> }

statsCommands ==
  { <<"s", "t", "a", "t", "s">>,
    <<"s", "t", "a", "t", "i", "s", "t", "i", "c", "s">>,
    <<"i", "n", "f", "o">> }

\* Faulty variant of isExitCommand: the query is compared as typed.
isExitCommandAsTyped(q) == q \in exitCommands

isExitCommand(q) == toLowerCase(q) \in exitCommands

isHelpCommand(q) == toLowerCase(q) \in helpCommands

isStatsCommand(q) == toLowerCase(q) \in statsCommands

\* cleanup(): rl.close() drops the question that awaits its line.
cleanup(u) ==
  IF u.rl # "null"
  THEN [u EXCEPT !.rl = "null", !.closed = @ + 1, !.question = FALSE]
  ELSE u

\* Faulty variant of exit: the readline interface is left open.
exitWithoutCleanup(u) == [u EXCEPT !.isRunning = FALSE]

\* exit()
exit(u) == cleanup([u EXCEPT !.isRunning = FALSE])

isActive(u) == u.isRunning /\ u.rl # "null"

\* The labels of the three measurements of performSearch.
SuggestionsLabel == <<"s", "u", "g", "g", "e", "s", "t", "i", "o", "n", "s">>
SearchTrieLabel == <<"s", "e", "a", "r", "c", "h", " ", "t", "r", "i", "e">>
SearchMapLabel == <<"s", "e", "a", "r", "c", "h", " ", "m", "a", "p">>

\* What the indexes handed to the interface may do when called: answer, or
\* raise in one of the calls the interface makes.
Faults ==
  {"none", "trie.getAutocompleteSuggestions", "trie.search", "map.search",
   "trie.getStatistics"}

\* The three measured calls of performSearch, in order.
SearchCalls ==
  << [label |-> SuggestionsLabel, fn |-> "trie.getAutocompleteSuggestions"],
     [label |-> SearchTrieLabel, fn |-> "trie.search"],
     [label |-> SearchMapLabel, fn |-> "map.search"] >>

\* The measured calls from the n-th on, until one raises: the monitor as
\* they leave it, the calls made and the error that ended them.
RECURSIVE MeasureCalls(_, _, _, _, _)
MeasureCalls(m, q, fault, n, calls) ==
  IF n > Len(SearchCalls) THEN [m |-> m, calls |-> calls, error |-> "none"]
  ELSE LET measured ==
             measureOperation(m, SearchCalls[n].label,
                              IF fault = SearchCalls[n].fn THEN "throws"
                              ELSE "returns")
           made == Append(calls, [fn |-> SearchCalls[n].fn, query |-> q])
       IN IF measured.error # "none"
          THEN [m |-> measured.m, calls |-> made, error |-> measured.error]
          ELSE MeasureCalls(measured.m, q, fault, n + 1, made)

\* performSearch(query): its try/catch logs the error of a call and returns.
performSearch(u, q, fault) ==
  LET done == MeasureCalls(u.performanceMonitor, q, fault, 1, <<>>)
  IN [u |-> [u EXCEPT !.performanceMonitor = done.m, !.searches = @ + 1],
      action |-> "search", calls |-> done.calls, raised |-> "none",
      logged |-> IF done.error # "none" THEN "Search error" ELSE "none"]

\* handleUserInput(query): what it did and the error it raised.
handleUserInput(u, line, fault) ==
  LET trimmedQuery == trim(line)
  IN IF isExitCommand(trimmedQuery)
     THEN [u |-> exit(u), action |-> "exit", calls |-> <<>>,
           raised |-> "none", logged |-> "none"]
     ELSE IF trimmedQuery = <<>>
     THEN [u |-> u, action |-> "empty", calls |-> <<>>,
           raised |-> "none", logged |-> "none"]
     ELSE IF isHelpCommand(trimmedQuery)
     THEN [u |-> u, action |-> "help", calls |-> <<>>,
           raised |-> "none", logged |-> "none"]
     ELSE IF isStatsCommand(trimmedQuery)
     THEN [u |-> u, action |-> "stats", calls |-> <<>>,
           raised |-> IF fault = "trie.getStatistics" THEN "statistics"
                      ELSE "none",
           logged |-> "none"]
     ELSE performSearch(u, trimmedQuery, fault)

\* promptUser(): if (!this.isRunning) return; this.rl.question(...)
promptUser(u) ==
  IF ~u.isRunning THEN u
  ELSE [u EXCEPT !.question = TRUE, !.prompts = @ + 1]

\* Faulty variant of AfterHandling: an error of handleUserInput is not
\* caught and ends the callback.
AfterHandlingUncaught(u, last) ==
  IF last.raised # "none" THEN u ELSE promptUser(u)

\* What follows the try/catch around handleUserInput in the callback:
\* if (this.isRunning) await this.promptUser()
AfterHandling(u, last) == promptUser(u)

\* The lines typed: "q", " Q ", "", " ", "?", "info", "a", " Aa " and "qq".
InputLines ==
  { <<"q">>, <<" ", "Q", " ">>, <<>>, <<" ">>, <<"?">>,
    <<"i", "n", "f", "o">>, <<"a">>, <<" ", "A", "a", " ">>, <<"q", "q">> }

UIInit ==
  /\ MainIdle
  /\ earlier = EarlierIdle
  /\ generator = GeneratorIdle
  /\ monitor = MonitorIdle
  /\ \E hasTrie \in BOOLEAN : \E hasMap \in BOOLEAN :
       ui = [UIIdle EXCEPT !.obj = NewSearchInterface(hasTrie, hasMap),
                           !.pc = "constructed"]
  /\ loader = LoaderIdle

\* start(): raises when an index is missing, else creates the readline
\* interface and asks the first question.
start ==
  /\ ui.pc = "constructed"
  /\ ui' =
       IF ~ui.obj.trie \/ ~ui.obj.map
       THEN [ui EXCEPT !.pc = "startFailed"]
       ELSE [ui EXCEPT
               !.pc = "waiting",
               !.obj = promptUser([ui.obj EXCEPT !.rl = "open",
                                                 !.created = @ + 1,
                                                 !.isRunning = TRUE])]
  /\ UNCHANGED besideUI

\* The callback of rl.question is given a line: handleUserInput(query)
\* inside try/catch.
OnLine ==
  /\ ui.pc = "waiting"
  /\ ui.obj.question
  /\ ui.lines < MaxLines
  /\ \E line \in InputLines : \E fault \in Faults :
       LET handled == handleUserInput([ui.obj EXCEPT !.question = FALSE],
                                      line, fault)
       IN ui' = [ui EXCEPT
                   !.pc = "handled",
                   !.obj = handled.u,
                   !.lines = @ + 1,
                   !.last = [line |-> line, action |-> handled.action,
                             calls |-> handled.calls,
                             raised |-> handled.raised,
                             logged |-> handled.logged],
                   !.exited = @ \/ handled.action = "exit",
                   !.atExit =
                      IF handled.action = "exit"
                      THEN [prompts |-> handled.u.prompts,
                            searches |-> handled.u.searches,
                            closed |-> handled.u.closed]
                      ELSE @]
  /\ UNCHANGED besideUI

\* The rest of the callback: if (this.isRunning) await this.promptUser()
ContinuePrompting ==
  /\ ui.pc = "handled"
  /\ ui' = [ui EXCEPT !.pc = "waiting",
                      !.obj = AfterHandling(ui.obj, ui.last)]
  /\ UNCHANGED besideUI

\* cleanup() called from outside, between two lines.
CallCleanup ==
  /\ ui.pc = "waiting"
  /\ ui.cleanups < MaxLines
  /\ ui' = [ui EXCEPT !.obj = cleanup(ui.obj), !.cleanups = @ + 1]
  /\ UNCHANGED besideUI

UINext ==
  \/ start
  \/ OnLine
  \/ ContinuePrompting
  \/ CallCleanup

UISpec == UIInit /\ [][UINext]_vars

\* The callback of rl.question is a chain of promise continuations: once a
\* line is handed to it, it reaches its end.
UILiveSpec == UIInit /\ [][UINext]_vars /\ WF_vars(ContinuePrompting)

\* The three calls of a search, as the claim lists them, for the query q.
ThreeCalls(q) ==
  << [fn |-> "trie.getAutocompleteSuggestions", query |-> q],
     [fn |-> "trie.search", query |-> q],
     [fn |-> "map.search", query |-> q] >>

(***************************************************************************)
(* C27  Input dispatch: for every input line one action is taken, chosen   *)
(* on the trimmed input in the priority exit command, empty input, help    *)
(* command, stats command, otherwise a search; commands are matched        *)
(* letter case apart; trie.getAutocompleteSuggestions, trie.search and     *)
(* map.search are invoked only by a search, in this order, each at most    *)
(* once and with the trimmed query, and each once when none of them        *)
(* raises.                                                                 *)
(***************************************************************************)
C27_InputDispatch ==
  ui.last.action # "none" =>
    LET trimmed == trim(ui.last.line)
        lowered == FoldCase(trimmed)
        chosen == IF lowered \in exitCommands THEN "exit"
                  ELSE IF trimmed = <<>> THEN "empty"
                  ELSE IF lowered \in helpCommands THEN "help"
                  ELSE IF lowered \in statsCommands THEN "stats"
                  ELSE "search"
    IN /\ ui.last.action = chosen
       /\ chosen # "search" => ui.last.calls = <<>>
       /\ chosen = "search" =>
            /\ Len(ui.last.calls) \in 1..3
            /\ ui.last.calls = SubSeq(ThreeCalls(trimmed), 1,
                                      Len(ui.last.calls))
            /\ ui.last.logged = "none" => Len(ui.last.calls) = 3

\* A second line, typed with blanks around it and in capitals, has been
\* searched for with the three calls.
C27_Witness ==
  /\ ui.lines = 2
  /\ ui.last.line = <<" ", "A", "a", " ">>
  /\ ui.last.action = "search"
  /\ ui.last.calls = ThreeCalls(<<"A", "a">>)

(***************************************************************************)
(* C28  Shutdown: once an exit command has been handled, isRunning is      *)
(* false, the readline interface is closed and set to null, isActive() is  *)
(* false, no further prompt is issued and no further search is performed;  *)
(* calling cleanup() again afterwards changes nothing.                     *)
(***************************************************************************)
C28_Shutdown ==
  ui.exited =>
    /\ ~ui.obj.isRunning
    /\ ui.obj.rl = "null"
    /\ ui.obj.closed = ui.obj.created
    /\ ~isActive(ui.obj)
    /\ ~ui.obj.question
    /\ ui.obj.prompts = ui.atExit.prompts
    /\ ui.obj.searches = ui.atExit.searches
    /\ ui.obj.closed = ui.atExit.closed

\* cleanup() has been called after an exit command that followed a search.
C28_Witness ==
  /\ ui.exited
  /\ ui.cleanups >= 1
  /\ ui.obj.searches >= 1

(***************************************************************************)
(* C29  Keeps serving: while the interface is running, after every input   *)
(* line that is not an exit command a new prompt is eventually issued,     *)
(* even when handling that line, or the search it triggers, raises an      *)
(* error; start() raises and leaves isRunning false and no readline        *)
(* created when the trie or the map is missing.                            *)
(***************************************************************************)
C29_KeepsServing ==
  /\ (ui.pc = "handled" /\ ui.last.action # "exit")
       ~> (ui.pc = "waiting" /\ ui.obj.question /\ isActive(ui.obj))
  /\ [](ui.pc \in {"waiting", "handled", "startFailed"} =>
          (ui.pc = "startFailed" <=> (~ui.obj.trie \/ ~ui.obj.map)))
  /\ [](ui.pc = "startFailed" =>
          /\ ~ui.obj.isRunning
          /\ ui.obj.rl = "null"
          /\ ui.obj.created = 0
          /\ ui.obj.prompts = 0)

\* A new prompt has been issued after a line whose handling raised an error.
C29_Witness ==
  /\ ui.pc = "waiting"
  /\ ui.last.raised # "none"
  /\ ui.obj.question
  /\ ui.obj.prompts >= 2

(***************************************************************************)
(* DataLoader (src/src/utils/data-loader.js): JSON files read through a    *)
(* cache keyed by file path.                                               *)
(***************************************************************************)
MaxLoads == 2

\* validateData(data, description): the error it throws ("none": it
\* returns).
validateData(data, description) ==
  IF data.type = "null" THEN "is null or undefined"
  ELSE IF description = "sample texts"
  THEN IF data.type # "array" THEN "must be an array"
       ELSE IF Len(data.items) = 0 THEN "array is empty"
       ELSE IF \E i \in DOMAIN data.items : ~IsString(data.items[i])
       THEN "is not a string"
       ELSE "none"
  ELSE IF description = "translations"
  THEN IF data.type # "object" THEN "must be an object"
       ELSE IF ~data.semanticSets.present THEN "none"
       ELSE IF ~data.semanticSets.isArray THEN "must be an array"
       ELSE IF data.semanticSets.sets # <<>> THEN "is not a string"
       ELSE "none"
  ELSE IF description = "semantic sets"
  THEN IF data.type # "object" THEN "must be an object"
       ELSE IF ~data.semanticSets.present \/ ~data.semanticSets.isArray
       THEN "must have a semanticSets array property"
       ELSE IF \E j \in DOMAIN data.semanticSets.sets :
                  ~data.semanticSets.sets[j].isArray
       THEN "is not an array"
       ELSE IF \E j \in DOMAIN data.semanticSets.sets :
               \E k \in DOMAIN data.semanticSets.sets[j].terms :
                  ~IsString(data.semanticSets.sets[j].terms[k])
       THEN "is not a string"
       ELSE "none"
  ELSE "none"

\* loadJsonFile(filePath, description): the loader as the call leaves it,
\* the error it throws and the value it returns.
loadJsonFile(l, filePath, description) ==
  IF filePath \in DOMAIN l.cache
  THEN [l |-> l, error |-> "none", returned |-> l.cache[filePath]]
  ELSE IF ~l.files[filePath].exists
  THEN [l |-> l, error |-> "file not found", returned |-> JsonNull]
  ELSE IF validateData(l.files[filePath].data, description) # "none"
  THEN [l |-> l,
        error |-> validateData(l.files[filePath].data, description),
        returned |-> JsonNull]
  ELSE [l |-> [l EXCEPT !.cache = MapSet(@, filePath,
                                         l.files[filePath].data)],
        error |-> "none", returned |-> l.files[filePath].data]

\* saveJsonFile(filePath, data): the file is written and the cache updated.
saveJsonFile(l, filePath, data) ==
  [l |-> [l EXCEPT !.files = [@ EXCEPT ![filePath] =
                                [exists |-> TRUE, data |-> data]],
                   !.cache = MapSet(@, filePath, data)],
   error |-> "none", returned |-> JsonNull]

\* The values in the files and in the arguments of saveJsonFile: ["A "],
\* [], ["A ", 5], {semanticSets: [["a"]]}, {semanticSets: [[5]]}, {} and
\* null.
JsonTexts == JsonArray(<< <<"A", " ">> >>)

JsonSets ==
  JsonObject([present |-> TRUE, isArray |-> TRUE,
              sets |-> << [isArray |-> TRUE, terms |-> << <<"a">> >>] >>])

JsonPool ==
  { JsonTexts,
    JsonArray(<<>>),
    JsonArray(<< <<"A", " ">>, NotAString >>),
    JsonSets,
    JsonObject([present |-> TRUE, isArray |-> TRUE,
                sets |-> << [isArray |-> TRUE,
                             terms |-> << NotAString >>] >>]),
    JsonObject(NoProperty),
    JsonNull }

\* What a file holds before the loader is used.
FileContents ==
  { NoFile,
    [exists |-> TRUE, data |-> JsonTexts],
    [exists |-> TRUE, data |-> JsonSets],
    [exists |-> TRUE, data |-> JsonObject(NoProperty)] }

LoaderInit ==
  /\ MainIdle
  /\ earlier = EarlierIdle
  /\ generator = GeneratorIdle
  /\ monitor = MonitorIdle
  /\ ui = UIIdle
  /\ \E files \in [Paths -> FileContents] :
       loader = [LoaderIdle EXCEPT !.files = files, !.pc = "ready"]

\* The loader after a call, with the record of that call.
AfterCall(name, filePath, call) ==
  [loader EXCEPT
     !.files = call.l.files,
     !.cache = call.l.cache,
     !.calls = @ + 1,
     !.last = [call |-> name, path |-> filePath, error |-> call.error,
               returned |-> call.returned, cacheBefore |-> loader.cache]]

\* loader.loadJsonFile(filePath), the description left to its default, as
\* exportSemanticSets calls it
CallLoadJsonFile ==
  /\ loader.pc = "ready"
  /\ loader.calls < MaxLoads
  /\ \E filePath \in Paths :
       loader' = AfterCall("loadJsonFile", filePath,
                           loadJsonFile(loader, filePath, "JSON data"))
  /\ UNCHANGED besideLoader

\* loader.saveJsonFile(filePath, data)
CallSaveJsonFile ==
  /\ loader.pc = "ready"
  /\ loader.calls < MaxLoads
  /\ \E filePath \in Paths : \E data \in JsonPool :
       loader' = AfterCall("saveJsonFile", filePath,
                           saveJsonFile(loader, filePath, data))
  /\ UNCHANGED besideLoader

\* loader.loadSampleTexts()
CallLoadSampleTexts ==
  /\ loader.pc = "ready"
  /\ loader.calls < MaxLoads
  /\ loader' = AfterCall("loadSampleTexts", "input/sample-texts.json",
                         loadJsonFile(loader, "input/sample-texts.json",
                                      "sample texts"))
  /\ UNCHANGED besideLoader

\* loader.loadTranslations()
CallLoadTranslations ==
  /\ loader.pc = "ready"
  /\ loader.calls < MaxLoads
  /\ loader' = AfterCall("loadTranslations", "input/translations.json",
                         loadJsonFile(loader, "input/translations.json",
                                      "translations"))
  /\ UNCHANGED besideLoader

\* loader.loadSemanticSets()
CallLoaderLoadSemanticSets ==
  /\ loader.pc = "ready"
  /\ loader.calls < MaxLoads
  /\ loader' = AfterCall("loadSemanticSets", "dist/simple-semantic-sets.json",
                         loadJsonFile(loader,
                                      "dist/simple-semantic-sets.json",
                                      "semantic sets"))
  /\ UNCHANGED besideLoader

LoaderNext ==
  \/ CallLoadJsonFile
  \/ CallSaveJsonFile
  \/ CallLoadSampleTexts
  \/ CallLoadTranslations
  \/ CallLoaderLoadSemanticSets

LoaderSpec == LoaderInit /\ [][LoaderNext]_vars

\* v is a non-empty array of strings.
NonEmptyArrayOfStrings(v) ==
  /\ v.type = "array"
  /\ v.items # <<>>
  /\ \A i \in DOMAIN v.items : v.items[i] # NotAString

\* v is an object whose semanticSets is an array of arrays of strings.
ObjectOfArraysOfStrings(v) ==
  /\ v.type = "object"
  /\ v.semanticSets.present
  /\ v.semanticSets.isArray
  /\ \A j \in DOMAIN v.semanticSets.sets :
       /\ v.semanticSets.sets[j].isArray
       /\ \A k \in DOMAIN v.semanticSets.sets[j].terms :
            v.semanticSets.sets[j].terms[k] # NotAString

(***************************************************************************)
(* C30  DataLoader returns only validated data: after any sequence of      *)
(* loadJsonFile, saveJsonFile, loadSampleTexts, loadTranslations and       *)
(* loadSemanticSets calls on one loader, every value returned by           *)
(* loadSampleTexts is a non-empty array of strings and every value         *)
(* returned by loadSemanticSets is an object whose semanticSets is an      *)
(* array of arrays of strings; a load that fails validation caches         *)
(* nothing.                                                                *)
(***************************************************************************)
C30_OnlyValidatedDataReturned ==
  /\ (loader.last.call = "loadSampleTexts" /\ loader.last.error = "none")
       => NonEmptyArrayOfStrings(loader.last.returned)
  /\ (loader.last.call = "loadSemanticSets" /\ loader.last.error = "none")
       => ObjectOfArraysOfStrings(loader.last.returned)
  /\ (/\ loader.last.call \in {"loadJsonFile", "loadSampleTexts",
                               "loadTranslations", "loadSemanticSets"}
      /\ loader.last.error # "none")
       => loader.cache = loader.last.cacheBefore

=============================================================================
